---------------------------- MODULE Spec2Model ----------------------------
(***************************************************************************)
(* Hanami HTML parser: the tokenizer (Source/HTML/Tokenizer.cpp), the tree *)
(* builder (src/html/tree_builder.cpp), the DOM insertion primitive        *)
(* (Node::insert_before) and the Parser facade that wires them together.   *)
(*                                                                         *)
(* One step of the model is one call of Tokenizer::process_next_token made *)
(* by the loop of Tokenizer::start.  A token emitted during the step is    *)
(* delivered synchronously to the emit callback, so the whole of           *)
(* TreeBuilder::process_token (its reprocess loop included) runs inside    *)
(* the step that emitted the token.                                        *)
(*                                                                         *)
(* Characters are one-character strings; the input stream is a sequence of *)
(* characters; names and character data built by the code are strings.     *)
(***************************************************************************)
EXTENDS Integers, Sequences, FiniteSets, TLC

VARIABLES
    html,                 \* the argument of Parser::parse
    input,                \* Parser::m_input_stream / Tokenizer::m_input_stream
    callback,             \* which emit callback Parser::parse installed
    m_state,              \* Tokenizer::m_state
    m_return_state,       \* Tokenizer::m_return_state
    m_current_char_idx,   \* Tokenizer::m_current_char_idx
    m_current_token,      \* Tokenizer::m_current_token
    m_temporary_buffer,   \* Tokenizer::m_temporary_buffer
    m_last_emitted_start_token_name,
    emitted,              \* the tokens handed to the emit callback, in order
    m_insertion_mode,     \* TreeBuilder::m_insertion_mode
    m_original_insertion_mode,
    m_open_elements,      \* TreeBuilder::m_open_elements (node ids, bottom first)
    m_frameset_ok,        \* TreeBuilder::m_frameset_ok
    nodes,                \* the heap of DOM nodes, in allocation order; nodes[1] is the Document
    m_head,               \* Document::m_head (0 is nullptr)
    m_body,               \* Document::m_body (0 is nullptr)
    stopped,              \* number of times TreeBuilder::stop_parsing has run
    result,               \* "running", "done" (start returned), "killed" (SIGTRAP),
                          \* "crashed" (SIGSEGV), "undefined" (pop of an empty stack)
    trapped,              \* some raise(SIGTRAP) has been executed
    tb_passes,            \* per token handed to the tree builder in the last step:
                          \* the insertion modes of the passes of the reprocess loop
    tb_set_state,         \* the state the tree builder passed to Tokenizer::set_state
                          \* during the last process_next_token call, "none" if it
                          \* made no such call
    steps                 \* number of process_next_token calls made by start

vars == << html, input, callback, m_state, m_return_state, m_current_char_idx,
           m_current_token, m_temporary_buffer, m_last_emitted_start_token_name,
           emitted, m_insertion_mode, m_original_insertion_mode, m_open_elements,
           m_frameset_ok, nodes, m_head, m_body, stopped, result, trapped,
           tb_set_state, tb_passes, steps >>

----------------------------------------------------------------------------
(* Characters *)

NUL == "NUL"          \* U+0000, also what consume_next_character returns at end of input
FFFD == "FFFD"        \* the replacement character U+FFFD appended by the tokenizer

UpperSeq == << "A","B","C","D","E","F","G","H","I","J","K","L","M",
               "N","O","P","Q","R","S","T","U","V","W","X","Y","Z" >>
LowerSeq == << "a","b","c","d","e","f","g","h","i","j","k","l","m",
               "n","o","p","q","r","s","t","u","v","w","x","y","z" >>
DigitSeq == << "0","1","2","3","4","5","6","7","8","9" >>

Range(f) == { f[i] : i \in DOMAIN f }

is_ascii_upper_alpha(c) == c \in Range(UpperSeq)
is_ascii_lower_alpha(c) == c \in Range(LowerSeq)
is_ascii_alpha(c) == is_ascii_lower_alpha(c) \/ is_ascii_upper_alpha(c)
is_ascii_alpha_numeric(c) == c \in Range(DigitSeq) \/ is_ascii_alpha(c)

\* a tolower that leaves every character as it is
keep_case(c) == c

\* std::tolower on a char
ToLower(c) ==
    IF is_ascii_upper_alpha(c)
    THEN LowerSeq[CHOOSE i \in DOMAIN UpperSeq : UpperSeq[i] = c]
    ELSE c

\* tab, LF, FF, space
IsTokWhitespace(c) == c \in { "\t", "\n", "\f", " " }

\* The text a consumed character contributes when appended to a std::string
RECURSIVE Join(_)
Join(cs) == IF cs = << >> THEN "" ELSE Head(cs) \o Join(Tail(cs))

RECURSIVE LowerAll(_)
LowerAll(cs) == IF cs = << >> THEN << >> ELSE << ToLower(Head(cs)) >> \o LowerAll(Tail(cs))

----------------------------------------------------------------------------
(* Tokens (the std::variant Token) *)

MkToken(type, name, data, sc, attrs, fq) ==
    [ type |-> type, name |-> name, data |-> data, self_closing |-> sc,
      attributes |-> attrs, force_quirks |-> fq ]

DOCTYPEToken(name, fq) == MkToken("DOCTYPE", name, "", FALSE, << >>, fq)
StartTagToken(name)    == MkToken("StartTag", name, "", FALSE, << >>, FALSE)
EndTagToken(name)      == MkToken("EndTag", name, "", FALSE, << >>, FALSE)
CommentToken(data)     == MkToken("Comment", "", data, FALSE, << >>, FALSE)
CharacterToken(c)      == MkToken("Character", "", c, FALSE, << >>, FALSE)
EOFToken               == MkToken("EOF", "", "", FALSE, << >>, FALSE)

IsTag(t) == t.type \in { "StartTag", "EndTag" }

TagAttribute(name, value) == [ name |-> name, value |-> value ]

----------------------------------------------------------------------------
(* The machine state a step works on.  A step reads the variables into one  *)
(* record, applies the handler to it and writes the record back.  `disp'    *)
(* is what raise(SIGTRAP) does in this step: the default disposition kills  *)
(* the process, an ignored or debugger-intercepted signal lets execution    *)
(* continue with the statement after the raise.  `ret' is the               *)
(* ProcessResult the handler returns.                                       *)

Cur(d) ==
    [ disp |-> d, ret |-> "Continue", reprocess |-> FALSE, out |-> << >>,
      m_state |-> m_state, m_return_state |-> m_return_state,
      m_current_char_idx |-> m_current_char_idx,
      m_current_token |-> m_current_token,
      m_temporary_buffer |-> m_temporary_buffer,
      m_last_emitted_start_token_name |-> m_last_emitted_start_token_name,
      emitted |-> emitted,
      m_insertion_mode |-> m_insertion_mode,
      m_original_insertion_mode |-> m_original_insertion_mode,
      m_open_elements |-> m_open_elements,
      m_frameset_ok |-> m_frameset_ok,
      nodes |-> nodes, m_head |-> m_head, m_body |-> m_body, stopped |-> stopped,
      result |-> result, trapped |-> trapped, tb_set_state |-> "none",
      tb_passes |-> << >> ]

Running(s) == s.result = "running"

\* raise(SIGTRAP)
Trap(s) ==
    IF ~Running(s) THEN s
    ELSE IF s.disp = "kill" THEN [ s EXCEPT !.result = "killed", !.trapped = TRUE ]
    ELSE [ s EXCEPT !.trapped = TRUE ]

\* a null pointer is dereferenced: the process dies with SIGSEGV
Crash(s) == IF ~Running(s) THEN s ELSE [ s EXCEPT !.result = "crashed" ]

----------------------------------------------------------------------------
(* DOM.  A node pointer is the index of the node in `nodes'; 0 is nullptr.  *)

html_namespace == "http://www.w3.org/1999/xhtml"
nullopt == "nullopt"
DocumentId == 1

NewNode(type, interface) ==
    [ m_type |-> type, interface |-> interface, m_document |-> 0, m_parent |-> 0,
      m_child_nodes |-> << >>, m_previous_sibling |-> 0, m_next_sibling |-> 0,
      m_data |-> "", m_name |-> "", local_name |-> "", namespace_uri |-> nullopt ]

NewDocument == NewNode("Document", "Document")
NewDocumentType(name) == [ NewNode("DocumentType", "DocumentType") EXCEPT !.m_name = name ]
NewText(data) == [ NewNode("Text", "Text") EXCEPT !.m_data = data ]
NewComment(data) == [ NewNode("Comment", "Comment") EXCEPT !.m_data = data ]

\* operator new: the node gets the next free index
Alloc(s, node) == [ s EXCEPT !.nodes = Append(@, node) ]
LastAllocated(s) == Len(s.nodes)

is_in_namespace(node, value) == node.namespace_uri = value

\* the attributes of an element: Element has no member that holds attributes,
\* and create_element_for_token appends none
element_attributes(node) == << >>

\* dynamic_cast<HTMLElement*>: of the interfaces the builder instantiates only
\* HTMLHtmlElement derives from HTMLElement
IsHTMLElement(node) == node.interface = "HTMLHtmlElement"

last_child(node) ==
    IF node.m_child_nodes = << >> THEN 0 ELSE node.m_child_nodes[Len(node.m_child_nodes)]

\* the child the node is inserted before: step 3 of insert_before
ReferenceChild(s, node, child) ==
    IF child = node THEN s.nodes[node].m_next_sibling ELSE child

\* m_child_nodes.insert(std::ranges::find(m_child_nodes, ref), node)
InsertChild(s, parent, node, ref) ==
    LET kids == s.nodes[parent].m_child_nodes
        hits == { i \in DOMAIN kids : kids[i] = ref }
        pos  == IF hits = {} THEN Len(kids) + 1
                ELSE CHOOSE i \in hits : \A j \in hits : i <= j
    IN  [ s EXCEPT !.nodes[parent].m_child_nodes =
              SubSeq(kids, 1, pos - 1) \o << node >> \o SubSeq(kids, pos, Len(kids)) ]

\* if the node is an element named "body": m_document->m_body = elem, where
\* m_document is the parent's node document (null for the Document itself)
SetBodyPointer(s, parent, node) ==
    IF ~(s.nodes[node].m_type = "Element" /\ s.nodes[node].local_name = "body") THEN s
    ELSE IF s.nodes[parent].m_document = 0 THEN Crash(s)
    ELSE [ s EXCEPT !.m_body = node ]

SetOwner(s, parent, node) ==
    IF ~Running(s) THEN s
    ELSE [ s EXCEPT
             !.nodes[node].m_document =
                 IF s.nodes[parent].m_type = "Document" THEN parent
                 ELSE s.nodes[parent].m_document,
             !.nodes[node].m_parent = parent ]

\* Node::insert_before, called on `parent'
insert_before(s, parent, node, child) ==
    SetOwner(
        SetBodyPointer(
            InsertChild(s, parent, node, ReferenceChild(s, node, child)),
            parent, node),
        parent, node)

append_child(s, parent, node) == insert_before(s, parent, node, 0)

----------------------------------------------------------------------------
(* Tree builder helpers.  Every operator returns its argument unchanged    *)
(* when the process is no longer running.                                  *)

current_node(s) ==
    IF s.m_open_elements = << >> THEN 0 ELSE s.m_open_elements[Len(s.m_open_elements)]

adjusted_current_node(s) == current_node(s)

Push(s, e) == IF ~Running(s) THEN s ELSE [ s EXCEPT !.m_open_elements = Append(@, e) ]

\* push the element created last
PushLastAllocated(s) == Push(s, LastAllocated(s))

\* m_open_elements.pop_back(); on an empty vector the behaviour is undefined
Pop(s) ==
    IF ~Running(s) THEN s
    ELSE IF s.m_open_elements = << >> THEN [ s EXCEPT !.result = "undefined" ]
    ELSE [ s EXCEPT !.m_open_elements = SubSeq(@, 1, Len(@) - 1) ]

SetMode(s, mode) == IF ~Running(s) THEN s ELSE [ s EXCEPT !.m_insertion_mode = mode ]
Reprocess(s) == IF ~Running(s) THEN s ELSE [ s EXCEPT !.reprocess = TRUE ]
TrapIf(s, cond) == IF cond THEN Trap(s) ELSE s

get_token_attribute_has(token, name) ==
    \E i \in DOMAIN token.attributes : token.attributes[i].name = name

get_token_attribute_value(token, name) ==
    IF get_token_attribute_has(token, name)
    THEN token.attributes[CHOOSE i \in DOMAIN token.attributes :
            /\ token.attributes[i].name = name
            /\ \A j \in DOMAIN token.attributes :
                   token.attributes[j].name = name => i <= j].value
    ELSE ""

\* the strings that equals_case_insensitive accepts for the characters cs
RECURSIVE CaseVariants(_)
CaseVariants(cs) ==
    IF cs = << >> THEN { "" }
    ELSE { c \o r : c \in { x \in Range(UpperSeq) \cup Range(LowerSeq) \cup { Head(cs) } :
                              ToLower(x) = ToLower(Head(cs)) },
                    r \in CaseVariants(Tail(cs)) }

\* NodeListLocation::operator*: the node at the location, nullptr at the end
\* of the list.  Every location the builder passes on is the end of a list.
LocationNode(pos) == 0

\* current_node()->insert_before(node created last, child)
InsertLastAllocated(s, child) ==
    IF ~Running(s) THEN s
    ELSE insert_before(s, current_node(s), LastAllocated(s), child)

\* the node "immediately before" the end of the current node's child list
LastChildOfCurrent(s) == last_child(s.nodes[current_node(s)])

\* insert_character without the step that appends to a Text node already at
\* the insertion location: every character gets a Text node of its own
insert_character_new_node(s, data) ==
    IF ~Running(s) THEN s
    ELSE IF current_node(s) = 0 THEN Crash(s)
    ELSE InsertLastAllocated(
             Alloc(s, [ NewText(data) EXCEPT
                          !.m_document = s.nodes[current_node(s)].m_document ]),
             LocationNode("none"))

\* an insert_character that replaces the data of the Text node at the
\* insertion location instead of appending to it
insert_character_overwrite(s, data) ==
    IF ~Running(s) THEN s
    ELSE IF current_node(s) = 0 THEN Crash(s)
    ELSE IF LastChildOfCurrent(s) # 0 /\ s.nodes[LastChildOfCurrent(s)].m_type = "Text"
    THEN [ s EXCEPT !.nodes[LastChildOfCurrent(s)].m_data = data ]
    ELSE InsertLastAllocated(
             Alloc(s, [ NewText(data) EXCEPT
                          !.m_document = s.nodes[current_node(s)].m_document ]),
             LocationNode("none"))

\* an insert_character that puts a Text node for the character into the
\* Document
insert_character_in_document(s, data) ==
    IF ~Running(s) THEN s
    ELSE append_child(Alloc(s, NewText(data)), DocumentId, Len(s.nodes) + 1)

\* appropriate_insertion_place reads the child list of the current node; with
\* an empty stack the read goes through a null pointer.  A current node that
\* is a Document gets no Text node.
insert_character(s, data) ==
    IF ~Running(s) THEN s
    ELSE IF current_node(s) = 0 THEN Crash(s)
    ELSE IF s.nodes[current_node(s)].m_type = "Document" THEN s
    ELSE IF LastChildOfCurrent(s) # 0 /\ s.nodes[LastChildOfCurrent(s)].m_type = "Text"
    THEN [ s EXCEPT !.nodes[LastChildOfCurrent(s)].m_data = @ \o data ]
    ELSE InsertLastAllocated(
             Alloc(s, [ NewText(data) EXCEPT
                          !.m_document = s.nodes[current_node(s)].m_document ]),
             LocationNode("none"))

\* pos is "document_end" (the location passed by the Initial and BeforeHTML
\* modes) or "none"; in either case the comment's node document is read from,
\* and the comment is inserted into, the current node
insert_comment(s, data, pos) ==
    IF ~Running(s) THEN s
    ELSE IF current_node(s) = 0 THEN Crash(s)
    ELSE InsertLastAllocated(
             Alloc(s, [ NewComment(data) EXCEPT
                          !.m_document = s.nodes[current_node(s)].m_document ]),
             LocationNode(pos))

create_element_internal(s, document, interface, local_name, element_namespace) ==
    Alloc(s, [ NewNode("Element", interface) EXCEPT
                 !.namespace_uri = element_namespace,
                 !.local_name = local_name,
                 !.m_document = document ])

create_element(s, document, local_name, element_namespace, has_is) ==
    TrapIf(create_element_internal(
               s, document,
               IF local_name = "html" /\ element_namespace = html_namespace
               THEN "HTMLHtmlElement" ELSE "Element",
               local_name, element_namespace),
           element_namespace = html_namespace /\ has_is)

\* for a token that is no tag the visit raises SIGTRAP and leaves tag_token
\* null; the name is then read through the null pointer
create_element_for_token(s, token, element_namespace, intended_parent) ==
    IF ~Running(s) THEN s
    ELSE IF ~IsTag(token) THEN Crash(Trap(s))
    ELSE IF intended_parent = 0 THEN Crash(s)
    ELSE create_element(s, s.nodes[intended_parent].m_document, token.name,
                        element_namespace, get_token_attribute_has(token, "is"))

insert_element_at_adjusted_insertion_location(s, element) ==
    IF ~Running(s) THEN s
    ELSE IF current_node(s) = 0 THEN Crash(s)
    ELSE insert_before(s, current_node(s), element, LocationNode("none"))

\* step 3 of insert_foreign_element, for the element created last
InsertCreatedElement(s, only_add_to_element_stack) ==
    IF only_add_to_element_stack THEN s
    ELSE insert_element_at_adjusted_insertion_location(s, LastAllocated(s))

\* the element returned is LastAllocated of the result
insert_foreign_element(s, token, element_namespace, only_add_to_element_stack) ==
    IF ~Running(s) THEN s
    ELSE IF current_node(s) = 0 THEN Crash(s)
    ELSE PushLastAllocated(
             InsertCreatedElement(
                 create_element_for_token(s, token, element_namespace, current_node(s)),
                 only_add_to_element_stack))

insert_html_element(s, token) == insert_foreign_element(s, token, html_namespace, FALSE)

\* Tokenizer::set_state, called by the tree builder
set_state(s, state) ==
    IF ~Running(s) THEN s
    ELSE [ s EXCEPT !.m_state = state, !.tb_set_state = state ]

\* a switch to "text" that does not save the insertion mode
EnterText_unsaved(s) ==
    IF ~Running(s) THEN s ELSE [ s EXCEPT !.m_insertion_mode = "Text" ]

\* original insertion mode := insertion mode; insertion mode := "text"
EnterText(s) ==
    IF ~Running(s) THEN s
    ELSE [ s EXCEPT !.m_original_insertion_mode = s.m_insertion_mode,
                    !.m_insertion_mode = "Text" ]

parse_generic_rcdata_element(s, token, generic_raw_text_parse) ==
    EnterText(set_state(insert_html_element(s, token),
                        IF generic_raw_text_parse THEN "RAWTEXT" ELSE "RCDATA"))

\* a stop_parsing that leaves the stack of open elements as it is
stop_parsing_keep_stack(s) ==
    IF ~Running(s) THEN s ELSE [ s EXCEPT !.stopped = @ + 1 ]

stop_parsing(s) ==
    IF ~Running(s) THEN s
    ELSE [ s EXCEPT !.m_open_elements = << >>, !.stopped = @ + 1 ]

----------------------------------------------------------------------------
(* TreeBuilder::process_token, one operator per insertion mode *)

is_special_character_token(t) ==
    t.type = "Character" /\ t.data \in { "\t", "\n", "\f", "\r", " " }

token_is_start_tag(t, tag) == t.type = "StartTag" /\ t.name = tag
token_is_end_tag(t, tag) == t.type = "EndTag" /\ t.name = tag
token_is_start_tag_any_of(t, names) == t.type = "StartTag" /\ t.name \in names
token_is_end_tag_any_of(t, names) == t.type = "EndTag" /\ t.name \in names
token_tag_name(t) == IF IsTag(t) THEN t.name ELSE ""

HeadBodyHtmlBr == { "head", "body", "html", "br" }

\* m_document->append_child(node created last)
AppendLastToDocument(s) ==
    IF ~Running(s) THEN s ELSE append_child(s, DocumentId, LastAllocated(s))

Mode_Initial(s, t) ==
    IF is_special_character_token(t) THEN s
    ELSE IF t.type = "Comment" THEN insert_comment(s, t.data, "document_end")
    ELSE IF t.type = "DOCTYPE"
    THEN SetMode(AppendLastToDocument(Alloc(s, NewDocumentType(t.name))), "BeforeHTML")
    ELSE Reprocess(SetMode(s, "BeforeHTML"))

Mode_BeforeHTML(s, t) ==
    IF t.type = "DOCTYPE" THEN s
    ELSE IF t.type = "Comment" THEN insert_comment(s, t.data, "document_end")
    ELSE IF is_special_character_token(t) THEN s
    ELSE IF token_is_start_tag(t, "html")
    THEN SetMode(PushLastAllocated(AppendLastToDocument(
                     create_element_for_token(s, t, html_namespace, DocumentId))),
                 "BeforeHead")
    ELSE IF t.type = "EndTag" /\ t.name \notin HeadBodyHtmlBr THEN s
    ELSE \* new HTMLHtmlElement(): no namespace, empty local name
         Reprocess(SetMode(PushLastAllocated(AppendLastToDocument(
             Alloc(s, [ NewNode("Element", "HTMLHtmlElement") EXCEPT
                          !.m_document = DocumentId ]))), "BeforeHead"))

\* insert an HTML element for the token being processed and make it the head
SetHeadLastAllocated(s) ==
    IF ~Running(s) THEN s ELSE [ s EXCEPT !.m_head = LastAllocated(s) ]

InsertHead(s, t) == SetMode(SetHeadLastAllocated(insert_html_element(s, t)), "InHead")

Mode_BeforeHead(s, t) ==
    IF is_special_character_token(t) THEN s
    ELSE IF t.type = "Comment" THEN insert_comment(s, t.data, "none")
    ELSE IF t.type = "DOCTYPE" THEN s
    ELSE IF token_is_start_tag(t, "html") THEN Trap(s)
    ELSE IF token_is_start_tag(t, "head") THEN InsertHead(s, t)
    ELSE IF t.type = "EndTag" /\ t.name \notin HeadBodyHtmlBr THEN s
    ELSE Reprocess(InsertHead(s, t))

Mode_InHead(s, t) ==
    IF is_special_character_token(t) THEN insert_character(s, t.data)
    ELSE IF t.type = "Comment" THEN insert_comment(s, t.data, "none")
    ELSE IF t.type = "DOCTYPE" THEN s
    ELSE IF token_is_start_tag(t, "html") THEN Trap(s)
    ELSE IF token_is_start_tag_any_of(t, { "base", "basefont", "bgsound", "link" }) THEN Trap(s)
    ELSE IF token_is_start_tag(t, "meta") THEN Pop(insert_html_element(s, t))
    ELSE IF token_is_start_tag(t, "title") THEN parse_generic_rcdata_element(s, t, FALSE)
    ELSE IF token_is_start_tag_any_of(t, { "noframes", "style" }) THEN Trap(s)
    ELSE IF token_is_start_tag(t, "noscript") THEN Trap(s)
    ELSE IF token_is_start_tag(t, "script") THEN Trap(s)
    ELSE IF token_is_end_tag(t, "head") THEN SetMode(Pop(s), "AfterHead")
    ELSE IF token_is_end_tag_any_of(t, { "body", "html", "br" })
    THEN Reprocess(SetMode(Pop(s), "AfterHead"))
    ELSE IF token_is_end_tag(t, "template") THEN Trap(s)
    ELSE IF token_is_start_tag(t, "head") \/ t.type = "EndTag" THEN s
    ELSE Reprocess(SetMode(Pop(TrapIf(s, token_is_start_tag(t, "template"))), "AfterHead"))

\* the rules of "text" with an end-of-file branch that stays in "text"
Mode_Text_stays(s, t) ==
    IF t.type = "Character" THEN insert_character(s, t.data)
    ELSE IF t.type = "EOF" THEN Reprocess(SetMode(Pop(s), "Text"))
    ELSE IF token_is_end_tag(t, "script") THEN Trap(s)
    ELSE IF t.type = "EndTag" THEN SetMode(Pop(s), s.m_original_insertion_mode)
    ELSE s

Mode_Text(s, t) ==
    IF t.type = "Character" THEN insert_character(s, t.data)
    ELSE IF t.type = "EOF"
    THEN Reprocess(SetMode(Pop(s), s.m_original_insertion_mode))
    ELSE IF token_is_end_tag(t, "script") THEN Trap(s)
    ELSE IF t.type = "EndTag" THEN SetMode(Pop(s), s.m_original_insertion_mode)
    ELSE s

SetFramesetNotOk(s) == IF ~Running(s) THEN s ELSE [ s EXCEPT !.m_frameset_ok = "NotOk" ]

Mode_AfterHead(s, t) ==
    IF is_special_character_token(t) THEN insert_character(s, t.data)
    ELSE IF t.type = "Comment" THEN insert_comment(s, t.data, "none")
    ELSE IF t.type = "DOCTYPE" THEN s
    ELSE IF token_is_start_tag(t, "html") THEN Trap(s)
    ELSE IF token_is_start_tag(t, "body")
    THEN SetMode(SetFramesetNotOk(insert_html_element(s, t)), "InBody")
    ELSE IF token_is_start_tag(t, "frameset") THEN Trap(s)
    ELSE IF token_is_start_tag_any_of(t, { "base", "basefont", "bgsound", "link", "meta",
                                          "noframes", "script", "style", "template", "title" })
    THEN Trap(s)
    ELSE IF t.type = "EndTag" THEN Trap(s)
    ELSE IF token_is_start_tag(t, "head") THEN s
    ELSE Trap(s)

BlockStartTags ==
    { "address", "article", "aside", "blockquote", "center", "details", "dialog", "dir",
      "div", "dl", "fieldset", "figcaption", "figure", "footer", "header", "hgroup",
      "main", "menu", "nav", "ol", "p", "search", "section", "summary", "ul" }

BlockEndTags ==
    { "address", "article", "aside", "blockquote", "button", "center", "details",
      "dialog", "dir", "div", "dl", "fieldset", "figcaption", "figure", "footer",
      "header", "hgroup", "listing", "main", "menu", "nav", "ol", "pre", "search",
      "section", "summary", "ul" }

ImpliedEndTags == { "dd", "dt", "li", "optgroup", "option", "p", "rb", "rp", "rt", "rtc" }

HeadingTags == { "h1", "h2", "h3", "h4", "h5", "h6" }

\* start tags of the in-body mode whose branch is TODO(); break;
InBodyTodoStartTags ==
    { "html", "body", "frameset", "form", "li", "dd", "dt", "plaintext", "button", "a",
      "nobr", "table", "param", "source", "track", "hr", "image", "textarea", "xmp",
      "iframe", "noembed", "select", "optgroup", "option", "rb", "rtc", "rp", "rt",
      "math", "svg", "caption", "col", "colgroup", "frame", "head", "tbody", "td",
      "tfoot", "th", "thead", "tr", "pre", "listing" }
    \cup { "base", "basefont", "bgsound", "link", "meta", "noframes", "script", "style",
           "template", "title" }
    \cup { "b", "big", "code", "em", "font", "i", "s", "small", "strike", "strong", "tt",
           "u" }
    \cup HeadingTags

\* end tags of the in-body mode whose branch is TODO(); break;
InBodyTodoEndTags ==
    { "template", "html", "form", "p", "li", "dd", "dt", "applet", "marquee", "object",
      "br" } \cup HeadingTags

\* while (current_node_is_any_of(implied end tags)) pop; the test reads the
\* local name through current_node(), a null pointer once the stack is empty
RECURSIVE PopImplied(_)
PopImplied(s) ==
    IF ~Running(s) THEN s
    ELSE IF current_node(s) = 0 THEN Crash(s)
    ELSE IF s.nodes[current_node(s)].local_name \in ImpliedEndTags THEN PopImplied(Pop(s))
    ELSE s

\* a block end tag that pops the current node only
PopUntil_current(s, name) == Pop(s)

\* while (auto* current = current_node()) { pop; if (name matches) break; }
RECURSIVE PopUntil(_, _)
PopUntil(s, name) ==
    IF ~Running(s) \/ current_node(s) = 0 THEN s
    ELSE IF s.nodes[current_node(s)].local_name = name THEN Pop(s)
    ELSE PopUntil(Pop(s), name)

\* the rest of the block end tag branch, once the implied end tags are popped
CloseBlock(s, t) ==
    IF ~Running(s) THEN s
    ELSE IF /\ IsHTMLElement(s.nodes[current_node(s)])
            /\ s.nodes[current_node(s)].local_name = token_tag_name(t)
    THEN Trap(s)
    ELSE PopUntil(s, token_tag_name(t))

InBody_BlockEndTag(s, t) == CloseBlock(PopImplied(s), t)

InBody_BlockStartTag(s, t) ==
    insert_html_element(
        TrapIf(s, \E i \in DOMAIN s.m_open_elements :
                     s.nodes[s.m_open_elements[i]].local_name = "p"),
        t)

FramesetNotOkIf(s, cond) == IF cond THEN SetFramesetNotOk(s) ELSE s

\* the input start tag handled without popping the element it inserts
InBody_Input_unpopped(s, t) ==
    FramesetNotOkIf(
        insert_html_element(s, t),
        get_token_attribute_value(t, "type") \in CaseVariants(<< "h","i","d","d","e","n" >>))

InBody_Input(s, t) ==
    FramesetNotOkIf(
        Pop(insert_html_element(s, t)),
        get_token_attribute_value(t, "type") \in CaseVariants(<< "h","i","d","d","e","n" >>))

\* any other end tag handled by popping the current node
InBody_AnyOtherEndTag_popping(s, t) == Pop(s)

\* the branch commented "any other end tag" tests for a start tag, which the
\* branch before it has already taken: an end tag reaches the final break
InBody_AnyOtherEndTag(s, t) == s

Mode_InBody(s, t) ==
    IF t.type = "Character" /\ t.data = NUL THEN s
    ELSE IF is_special_character_token(t) THEN insert_character(s, t.data)
    ELSE IF t.type = "Character" THEN SetFramesetNotOk(insert_character(s, t.data))
    ELSE IF t.type = "DOCTYPE" THEN Trap(s)
    ELSE IF t.type = "EOF" THEN Trap(s)
    ELSE IF token_is_end_tag(t, "body") THEN SetMode(s, "AfterBody")
    ELSE IF token_is_start_tag_any_of(t, BlockStartTags) THEN InBody_BlockStartTag(s, t)
    ELSE IF token_is_end_tag_any_of(t, BlockEndTags) THEN InBody_BlockEndTag(s, t)
    ELSE IF token_is_start_tag_any_of(t, { "area", "br", "embed", "img", "keygen", "wbr" })
    THEN SetFramesetNotOk(Pop(insert_html_element(s, t)))
    ELSE IF token_is_start_tag(t, "input") THEN InBody_Input(s, t)
    ELSE IF token_is_start_tag_any_of(t, InBodyTodoStartTags) THEN Trap(s)
    ELSE IF token_is_end_tag_any_of(t, InBodyTodoEndTags) THEN Trap(s)
    ELSE IF t.type = "StartTag" THEN Trap(s)
    ELSE IF t.type = "EndTag" THEN InBody_AnyOtherEndTag(s, t)
    ELSE s     \* comments reach the final break

Mode_AfterBody(s, t) ==
    IF is_special_character_token(t) THEN insert_character(s, t.data)
    ELSE IF t.type = "Comment" THEN Trap(s)
    ELSE IF t.type = "DOCTYPE" THEN s
    ELSE IF token_is_start_tag(t, "html") THEN Trap(s)
    ELSE IF token_is_end_tag(t, "html") THEN Trap(s)
    ELSE IF t.type = "EOF" THEN stop_parsing(s)
    ELSE Reprocess(SetMode(s, "InBody"))

\* one pass of the dispatcher: the rules of the current insertion mode, or
\* the (empty) rules for foreign content
Dispatch(s, t) ==
    IF \/ s.m_open_elements = << >>
       \/ is_in_namespace(s.nodes[adjusted_current_node(s)], html_namespace)
       \/ t.type = "EOF"
    THEN IF s.m_insertion_mode = "Initial" THEN Mode_Initial(s, t)
         ELSE IF s.m_insertion_mode = "BeforeHTML" THEN Mode_BeforeHTML(s, t)
         ELSE IF s.m_insertion_mode = "BeforeHead" THEN Mode_BeforeHead(s, t)
         ELSE IF s.m_insertion_mode = "InHead" THEN Mode_InHead(s, t)
         ELSE IF s.m_insertion_mode = "Text" THEN Mode_Text(s, t)
         ELSE IF s.m_insertion_mode = "AfterHead" THEN Mode_AfterHead(s, t)
         ELSE IF s.m_insertion_mode = "InBody" THEN Mode_InBody(s, t)
         ELSE IF s.m_insertion_mode = "AfterBody" THEN Mode_AfterBody(s, t)
         ELSE Trap(s)
    ELSE s

\* the do { ... } while (reprocess) loop
RECURSIVE TB_process_token(_, _)
Again(r, token) ==
    IF Running(r) /\ r.reprocess THEN TB_process_token(r, token) ELSE r

TB_process_token(s, token) ==
    Again(Dispatch([ s EXCEPT !.reprocess = FALSE,
                              !.tb_passes[Len(s.tb_passes)] =
                                  Append(@, s.m_insertion_mode) ],
                   token),
          token)

----------------------------------------------------------------------------
(* Tokenizer helpers *)

\* the character consume_next_character returns
NextChar(s) ==
    IF s.m_current_char_idx + 1 > Len(input) THEN NUL
    ELSE input[s.m_current_char_idx + 1]

\* the state consume_next_character leaves behind
Consume(s) ==
    IF s.m_current_char_idx + 1 > Len(input) THEN s
    ELSE [ s EXCEPT !.m_current_char_idx = @ + 1 ]

Min(a, b) == IF a < b THEN a ELSE b

consume_multiple_chars(s, count) ==
    [ s EXCEPT !.m_current_char_idx = Min(@ + count, Len(input)) ]

\* An assignment m_state = state in a handler.  It takes effect at once
\* unless the handler has already called emit_token: then it takes its place
\* in `out' after the tokens emitted before it, so that it is written after
\* their callbacks have returned, as in the code.
SetState(s, state) ==
    IF s.out = << >> THEN [ s EXCEPT !.m_state = state ]
    ELSE [ s EXCEPT !.out = Append(@, [ type |-> "m_state", name |-> state ]) ]

reconsume_in(s, state) == SetState([ s EXCEPT !.m_current_char_idx = @ - 1 ], state)

reached_eof(s) == s.m_current_char_idx >= Len(input)

next_characters_equals(s, chars, case_insensitive) ==
    IF s.m_current_char_idx + Len(chars) >= Len(input) THEN FALSE
    ELSE LET sub == SubSeq(input, s.m_current_char_idx + 1,
                           s.m_current_char_idx + Len(chars))
         IN  IF case_insensitive THEN LowerAll(sub) = LowerAll(chars)
             ELSE sub = chars

\* a test that takes every end tag token for an appropriate one
any_end_tag_is_appropriate(s) == s.m_current_token.type = "EndTag"

current_is_appropriate_end_tag(s) ==
    /\ s.m_current_token.type = "EndTag"
    /\ s.m_last_emitted_start_token_name # ""
    /\ s.m_current_token.name = s.m_last_emitted_start_token_name

SetToken(s, token) == [ s EXCEPT !.m_current_token = token ]
Abort(s) == [ s EXCEPT !.ret = "Abort" ]

\* the emit callback Parser::parse installed
Callback(s, token) ==
    IF callback = "tree"
    THEN TB_process_token([ s EXCEPT !.tb_passes = Append(@, << >>) ], token)
    ELSE s

\* Tokenizer::emit_token: remember the name of a start tag and hand the token
\* to the callback
emit_token(s, token) ==
    IF ~Running(s) THEN s
    ELSE Callback([ s EXCEPT
                      !.m_last_emitted_start_token_name =
                          IF token.type = "StartTag" THEN token.name ELSE @,
                      !.emitted = Append(@, token) ],
                  token)

\* the emit_token calls of one handler and the assignments to m_state that
\* follow them, in order
RECURSIVE Deliver(_, _)
Deliver(s, out) ==
    IF out = << >> THEN s
    ELSE IF Head(out).type = "m_state"
    THEN Deliver(IF Running(s) THEN [ s EXCEPT !.m_state = Head(out).name ] ELSE s,
                 Tail(out))
    ELSE Deliver(emit_token(s, Head(out)), Tail(out))

DeliverAll(s) == Deliver([ s EXCEPT !.out = << >> ], s.out)

\* A call emit_token(token) inside a handler.  The handlers below collect
\* their calls in `out' and the step delivers them when the handler is done.
\* This is the order of effects of the code: the callback changes tokenizer
\* state only through set_state, no handler reads m_state, and an assignment
\* to m_state after an emit_token is delivered after it, see SetState; a
\* callback that ends the process makes the handler's remaining statements
\* irrelevant.
Emit(s, token) == IF ~Running(s) THEN s ELSE [ s EXCEPT !.out = Append(@, token) ]

emit_char(s, c) == Emit(s, CharacterToken(c))

\* a tokenizer that emits its current token and only then writes the state
\* Data, after the callback has returned
emit_current_then_data(s) == SetState(Emit(s, s.m_current_token), "Data")

\* emit the tokenizer's current token
emit_current(s) == Emit(s, s.m_current_token)

----------------------------------------------------------------------------
(* Tokenizer::process_next_token, one operator per case of the switch *)

State_Data(s0) ==
    LET c == NextChar(s0)
        s == Consume(s0)
    IN  IF reached_eof(s) THEN Abort(Emit(s, EOFToken))
        ELSE IF c = "&" THEN SetState([ s EXCEPT !.m_return_state = "Data" ], "CharacterReference")
        ELSE IF c = "<" THEN SetState(s, "TagOpen")
        ELSE emit_char(s, c)

State_TagOpen(s0) ==
    LET c == NextChar(s0)
        s == Consume(s0)
    IN  IF reached_eof(s) THEN Abort(Emit(emit_char(s, "<"), EOFToken))
        ELSE IF c = "!" THEN SetState(s, "MarkupDeclarationOpen")
        ELSE IF c = "/" THEN SetState(s, "EndTagOpen")
        ELSE IF is_ascii_alpha(c) THEN reconsume_in(SetToken(s, StartTagToken("")), "TagName")
        ELSE IF c = "?" THEN reconsume_in(SetToken(s, CommentToken("")), "BogusComment")
        ELSE reconsume_in(emit_char(s, "<"), "Data")

State_EndTagOpen(s0) ==
    LET c == NextChar(s0)
        s == Consume(s0)
    IN  IF reached_eof(s)
        THEN Abort(Emit(emit_char(emit_char(s, "<"), "/"), EOFToken))
        ELSE IF is_ascii_alpha(c) THEN reconsume_in(SetToken(s, EndTagToken("")), "TagName")
        ELSE IF c = ">" THEN SetState(s, "Data")
        ELSE reconsume_in(SetToken(s, CommentToken("")), "BogusComment")

State_MarkupDeclarationOpen(s) ==
    IF next_characters_equals(s, << "-", "-" >>, FALSE)
    THEN SetState(SetToken(consume_multiple_chars(s, 2), CommentToken("")), "CommentStart")
    ELSE IF next_characters_equals(s, << "D","O","C","T","Y","P","E" >>, TRUE)
    THEN SetState(consume_multiple_chars(s, 7), "DOCTYPE")
    ELSE IF next_characters_equals(s, << "[","C","D","A","T","A","[" >>, FALSE)
    THEN Trap(consume_multiple_chars(s, 7))
    ELSE SetState(SetToken(s, CommentToken("")), "BogusComment")

\* a fresh DOCTYPE token whose force-quirks flag is on
ForceQuirksDOCTYPE == DOCTYPEToken("", TRUE)

State_DOCTYPE(s0) ==
    LET c == NextChar(s0)
        s == Consume(s0)
    IN  IF reached_eof(s)
        THEN Abort(Emit(emit_current(SetToken(s, ForceQuirksDOCTYPE)), EOFToken))
        ELSE IF IsTokWhitespace(c) THEN SetState(s, "BeforeDOCTYPEName")
        ELSE reconsume_in(s, "BeforeDOCTYPEName")

State_BeforeDOCTYPEName(s0) ==
    LET c == NextChar(s0)
        s == Consume(s0)
    IN  IF reached_eof(s)
        THEN Abort(Emit(emit_current(SetToken(s, ForceQuirksDOCTYPE)), EOFToken))
        ELSE IF IsTokWhitespace(c) THEN s
        ELSE IF is_ascii_upper_alpha(c)
        THEN SetState(SetToken(s, DOCTYPEToken(ToLower(c), FALSE)), "DOCTYPEName")
        ELSE IF c = NUL
        THEN SetState(SetToken(s, DOCTYPEToken(FFFD, FALSE)), "DOCTYPEName")
        ELSE IF c = ">"
        THEN emit_current(SetState(SetToken(s, ForceQuirksDOCTYPE), "Data"))
        ELSE SetState(SetToken(s, DOCTYPEToken(c, FALSE)), "DOCTYPEName")

State_DOCTYPEName(s0) ==
    LET c == NextChar(s0)
        s == Consume(s0)
    IN  IF reached_eof(s)
        THEN Abort(Emit(
                 emit_current([ s EXCEPT !.m_current_token.force_quirks = TRUE ]), EOFToken))
        ELSE IF IsTokWhitespace(c) THEN SetState(s, "AfterDOCTYPEName")
        ELSE IF c = ">" THEN emit_current(SetState(s, "Data"))
        ELSE IF is_ascii_upper_alpha(c)
        THEN [ s EXCEPT !.m_current_token.name = @ \o ToLower(c) ]
        ELSE IF c = NUL THEN [ s EXCEPT !.m_current_token.name = @ \o FFFD ]
        ELSE [ s EXCEPT !.m_current_token.name = @ \o c ]

\* emit every character of the temporary buffer as a character token
RECURSIVE FlushBuffer(_, _)
FlushBuffer(s, buf) ==
    IF buf = << >> THEN s ELSE FlushBuffer(emit_char(s, Head(buf)), Tail(buf))

State_CharacterReference(s0) ==
    LET s1 == [ s0 EXCEPT !.m_temporary_buffer = << "&" >> ]
        c  == NextChar(s1)
        s  == Consume(s1)
    IN  IF is_ascii_alpha_numeric(c) THEN reconsume_in(s, "NamedCharacterReference")
        ELSE IF c = "#"
        THEN SetState([ s EXCEPT !.m_temporary_buffer = Append(@, c) ],
                      "NumericCharacterReference")
        ELSE LET f == FlushBuffer(s, s.m_temporary_buffer)
             IN  IF Running(f) THEN reconsume_in(f, f.m_return_state) ELSE f

\* the loop of the named character reference state: consume ASCII alphas into
\* the temporary buffer, stop at (and consume) the first other character
RECURSIVE ConsumeAlphas(_)
ConsumeAlphas(s) ==
    LET c == NextChar(s)
    IN  IF is_ascii_alpha(c)
        THEN ConsumeAlphas([ Consume(s) EXCEPT !.m_temporary_buffer = Append(@, c) ])
        ELSE Consume(s)

State_NamedCharacterReference(s0) ==
    LET s == Trap(s0)
    IN  IF ~Running(s) THEN s
        ELSE [ ConsumeAlphas(s) EXCEPT !.m_temporary_buffer = Append(@, ";") ]

\* the std::visit over the current token used by the tag states: the
\* start-tag and end-tag arms apply f, every other alternative raises SIGTRAP
AppendTagName(s, str) ==
    IF IsTag(s.m_current_token)
    THEN [ s EXCEPT !.m_current_token.name = @ \o str ]
    ELSE Trap(s)

StartAttribute(s, name) ==
    IF IsTag(s.m_current_token)
    THEN [ s EXCEPT !.m_current_token.attributes = Append(@, TagAttribute(name, "")) ]
    ELSE Trap(s)

\* m_current_attribute points at the last attribute of the current tag token
AppendAttrName(s, str) ==
    LET n == Len(s.m_current_token.attributes)
    IN  [ s EXCEPT !.m_current_token.attributes[n].name = @ \o str ]

AppendAttrValue(s, str) ==
    LET n == Len(s.m_current_token.attributes)
    IN  [ s EXCEPT !.m_current_token.attributes[n].value = @ \o str ]

State_TagName(s0) ==
    LET c == NextChar(s0)
        s == Consume(s0)
    IN  IF reached_eof(s) THEN Abort(Emit(s, EOFToken))
        ELSE IF IsTokWhitespace(c) THEN SetState(s, "BeforeAttributeName")
        ELSE IF c = "/" THEN SetState(s, "SelfClosingStartTag")
        ELSE IF c = ">" THEN emit_current(SetState(s, "Data"))
        ELSE IF is_ascii_upper_alpha(c) THEN AppendTagName(s, ToLower(c))
        ELSE IF c = NUL THEN AppendTagName(s, FFFD)
        ELSE AppendTagName(s, ToLower(c))

State_SelfClosingStartTag(s0) ==
    LET c == NextChar(s0)
        s == Consume(s0)
    IN  IF reached_eof(s) THEN Abort(Emit(s, EOFToken))
        ELSE IF c = ">"
        THEN LET s1 == IF IsTag(s.m_current_token)
                       THEN [ s EXCEPT !.m_current_token.self_closing = TRUE ]
                       ELSE Trap(s)
             IN  IF Running(s1) THEN emit_current(SetState(s1, "Data")) ELSE s1
        ELSE reconsume_in(s, "BeforeAttributeName")

State_BeforeAttributeName(s0) ==
    LET c == NextChar(s0)
        s == Consume(s0)
    IN  IF reached_eof(s) THEN reconsume_in(s, "AfterAttributeName")
        ELSE IF IsTokWhitespace(c) THEN s
        ELSE IF c \in { "/", ">", "=" }
        THEN LET s1 == StartAttribute(s, c)
             IN  IF Running(s1) THEN SetState(s1, "AttributeName") ELSE s1
        ELSE LET s1 == StartAttribute(s, "")
             IN  IF Running(s1) THEN reconsume_in(s1, "AttributeName") ELSE s1

State_AttributeName(s0) ==
    LET c == NextChar(s0)
        s == Consume(s0)
    IN  IF reached_eof(s) THEN reconsume_in(s, "AfterAttributeName")
        ELSE IF IsTokWhitespace(c) \/ c \in { "/", ">", "=" }
        THEN SetState(s, "BeforeAttributeValue")
        ELSE IF is_ascii_upper_alpha(c) THEN AppendAttrName(s, ToLower(c))
        ELSE IF c = NUL THEN AppendAttrName(s, FFFD)
        ELSE AppendAttrName(s, c)

State_BeforeAttributeValue(s0) ==
    LET c == NextChar(s0)
        s == Consume(s0)
    IN  IF IsTokWhitespace(c) THEN s
        ELSE IF c = "\"" THEN SetState(s, "AttributeValueDoubleQuoted")
        ELSE IF c = "'" THEN SetState(s, "AttributeValueSingleQuoted")
        ELSE IF c = ">" THEN emit_current(SetState(s, "Data"))
        ELSE reconsume_in(s, "AttributeValueUnquoted")

State_AttributeValueDoubleQuoted(s0) ==
    LET c == NextChar(s0)
        s == Consume(s0)
    IN  IF reached_eof(s) THEN Abort(Emit(s, EOFToken))
        ELSE IF c = "\"" THEN SetState(s, "AfterAttributeValueQuoted")
        ELSE IF c = "&"
        THEN SetState([ s EXCEPT !.m_return_state = "AttributeValueDoubleQuoted" ],
                      "CharacterReference")
        ELSE IF c = NUL THEN AppendAttrValue(s, FFFD)
        ELSE AppendAttrValue(s, c)

State_AttributeValueUnquoted(s0) ==
    LET c == NextChar(s0)
        s == Consume(s0)
    IN  IF reached_eof(s) THEN Abort(Emit(s, EOFToken))
        ELSE IF IsTokWhitespace(c) THEN SetState(s, "BeforeAttributeName")
        ELSE IF c = "&"
        THEN SetState([ s EXCEPT !.m_return_state = "AttributeValueUnquoted" ],
                      "CharacterReference")
        ELSE IF c = ">" THEN emit_current(SetState(s, "Data"))
        ELSE IF c = NUL THEN AppendAttrValue(s, FFFD)
        ELSE AppendAttrValue(s, c)

State_AfterAttributeValueQuoted(s0) ==
    LET c == NextChar(s0)
        s == Consume(s0)
    IN  IF reached_eof(s) THEN Abort(Emit(s, EOFToken))
        ELSE IF IsTokWhitespace(c) THEN SetState(s, "BeforeAttributeName")
        ELSE IF c = "/" THEN SetState(s, "SelfClosingStartTag")
        ELSE IF c = ">" THEN emit_current(SetState(s, "Data"))
        ELSE reconsume_in(s, "BeforeAttributeName")

\* std::get<CommentToken>(m_current_token).data += str; std::get throws when the
\* current token is no comment and the uncaught exception terminates the process
AppendCommentData(s, str) ==
    IF s.m_current_token.type = "Comment"
    THEN [ s EXCEPT !.m_current_token.data = @ \o str ]
    ELSE Crash(s)

State_CommentStart(s0) ==
    LET c == NextChar(s0)
        s == Consume(s0)
    IN  IF c = "-" THEN SetState(s, "CommentStartDash")
        ELSE IF c = ">" THEN emit_current(SetState(s, "Data"))
        ELSE reconsume_in(s, "Comment")

State_Comment(s0) ==
    LET c == NextChar(s0)
        s == Consume(s0)
    IN  IF reached_eof(s) THEN Abort(Emit(emit_current(s), EOFToken))
        ELSE IF c = "<" THEN SetState(AppendCommentData(s, c), "CommentLessThanSign")
        ELSE IF c = "-" THEN SetState(s, "CommentEndDash")
        ELSE IF c = NUL THEN AppendCommentData(s, FFFD)
        ELSE AppendCommentData(s, c)

State_CommentEndDash(s0) ==
    LET c == NextChar(s0)
        s == Consume(s0)
    IN  IF reached_eof(s) THEN Abort(Emit(emit_current(s), EOFToken))
        ELSE IF c = "-" THEN SetState(s, "CommentEnd")
        ELSE reconsume_in(AppendCommentData(s, "-"), "Comment")

State_CommentEnd(s0) ==
    LET c == NextChar(s0)
        s == Consume(s0)
    IN  IF reached_eof(s) THEN Abort(Emit(emit_current(s), EOFToken))
        ELSE IF c = ">" THEN emit_current(SetState(s, "Data"))
        ELSE IF c = "!" THEN SetState(s, "CommentEndBang")
        ELSE IF c = "-" THEN AppendCommentData(s, "-")
        ELSE reconsume_in(AppendCommentData(s, "--"), "Comment")

State_CommentLessThanSign(s0) ==
    LET c == NextChar(s0)
        s == Consume(s0)
    IN  IF c = "!" THEN SetState(AppendCommentData(s, c), "CommentLessThanSignBang")
        ELSE IF c = "<" THEN AppendCommentData(s, c)
        ELSE reconsume_in(s, "Comment")

\* the end-of-file arm emits the EOF token and leaves the switch with `break',
\* so the handler returns Continue
State_RCDATA(s0) ==
    LET c == NextChar(s0)
        s == Consume(s0)
    IN  IF reached_eof(s) THEN Emit(s, EOFToken)
        ELSE IF c = "&"
        THEN SetState([ s EXCEPT !.m_return_state = "RCDATA" ], "CharacterReference")
        ELSE IF c = "<" THEN SetState(s, "RCDATALessThanSign")
        ELSE IF c = NUL THEN emit_char(s, "?")
        ELSE emit_char(s, c)

State_RCDATALessThanSign(s0) ==
    LET c == NextChar(s0)
        s == Consume(s0)
    IN  IF c = "/"
        THEN SetState([ s EXCEPT !.m_temporary_buffer = << >> ], "RCDATAEndTagOpen")
        ELSE reconsume_in(emit_char(s, "<"), "RCDATA")

State_RCDATAEndTagOpen(s0) ==
    LET c == NextChar(s0)
        s == Consume(s0)
    IN  IF is_ascii_alpha(c)
        THEN reconsume_in(SetToken(s, EndTagToken("")), "RCDATAEndTagName")
        ELSE reconsume_in(emit_char(emit_char(s, "<"), "/"), "RCDATA")

State_RCDATAEndTagName(s0) ==
    LET c == NextChar(s0)
        s == Consume(s0)
        appropriate == current_is_appropriate_end_tag(s)
    IN  IF IsTokWhitespace(c) /\ appropriate THEN SetState(s, "BeforeAttributeName")
        ELSE IF c = "/" /\ appropriate THEN SetState(s, "SelfClosingStartTag")
        ELSE IF c = ">" /\ appropriate THEN emit_current(SetState(s, "Data"))
        ELSE IF is_ascii_upper_alpha(c)
        THEN LET s1 == AppendTagName(s, ToLower(c))
             IN  IF Running(s1) THEN [ s1 EXCEPT !.m_temporary_buffer = Append(@, c) ] ELSE s1
        ELSE IF is_ascii_lower_alpha(c)
        THEN LET s1 == AppendTagName(s, c)
             IN  IF Running(s1) THEN [ s1 EXCEPT !.m_temporary_buffer = Append(@, c) ] ELSE s1
        ELSE reconsume_in(
                 FlushBuffer(emit_char(emit_char(s, "<"), "/"), s.m_temporary_buffer),
                 "RCDATA")

\* the default arm of the switch: a state without a case raises SIGTRAP and
\* returns Continue with the state unchanged
State_default(s) == Trap(s)

\* the states process_next_token has a case for
HandledStates ==
    { "Data", "TagOpen", "EndTagOpen", "MarkupDeclarationOpen", "DOCTYPE",
      "BeforeDOCTYPEName", "DOCTYPEName", "CharacterReference",
      "NamedCharacterReference", "TagName", "SelfClosingStartTag",
      "BeforeAttributeName", "AttributeName", "BeforeAttributeValue",
      "AttributeValueDoubleQuoted", "AttributeValueUnquoted",
      "AfterAttributeValueQuoted", "CommentStart", "Comment", "CommentEndDash",
      "CommentEnd", "CommentLessThanSign", "RCDATA", "RCDATALessThanSign",
      "RCDATAEndTagOpen", "RCDATAEndTagName" }

----------------------------------------------------------------------------
(* Inputs *)

\* the well-formed document of scenario S1
S1_Input ==
    << "<", "!", "D", "O", "C", "T", "Y", "P", "E", " ", "h", "t", "m", "l",
      ">", "<", "h", "t", "m", "l", ">", "<", "h", "e", "a", "d", ">", "<",
      "/", "h", "e", "a", "d", ">", "<", "b", "o", "d", "y", ">", "h", "i",
      "<", "/", "b", "o", "d", "y", ">", "<", "/", "h", "t", "m", "l", ">" >>

\* a title element: RCDATA content with a character reference and a false end tag
TitleInput ==
    << "<", "h", "t", "m", "l", ">", "<", "h", "e", "a", "d", ">", "<", "t",
      "i", "t", "l", "e", ">", "a", "&", " ", "<", "x", "<", "/", " ", "<",
      "/", "b", " ", "<", "/", "t", "i", "t", "l", "e", ">", "<", "/", "h",
      "e", "a", "d", ">" >>

\* a tag with quoted, unquoted and single-quoted attribute values
AttributeInput ==
    << "<", "d", "i", "v", " ", "a", "=", "\"", "b", "&", "c", "\"", " ", "d",
      "=", "e", "/", " ", "f", "=", "'", "g", "'", ">" >>

\* upper-case tag and attribute names and a self-closing tag
UpperInput ==
    << "<", "B", "R", " ", "I", "d", "=", "X", "/", ">", "<", "B", "r", " ",
      "C", "L", "A", "S", "S", "=", "\"", "Y", "\"", " ", "/", ">", "z" >>

\* a comment before the html element
CommentInput ==
    << "<", "!", "-", "-", " ", "c", " ", "-", "-", ">", "<", "h", "t", "m",
      "l", ">", "<", "/", "h", "t", "m", "l", ">" >>

\* a comment containing less-than signs and dashes
CommentLtInput ==
    << "<", "!", "-", "-", "a", "<", "<", "b", "-", "c", "-", "-", "d", "-",
      "-", "-", ">", "x" >>

\* a processing instruction, tokenized as a bogus comment
BogusInput ==
    << "<", "?", "x", ">" >>

\* a named character reference in text
NamedRefInput ==
    << "a", "&", "a", "m", "p", ";", "b" >>

\* a body directly inside html, closed, followed by text
HeadlessInput ==
    << "<", "h", "t", "m", "l", ">", "<", "b", "o", "d", "y", ">", "<", "p",
      ">", "a", "<", "/", "d", "i", "v", ">", "<", "/", "b", "o", "d", "y",
      ">", "x", "y" >>

\* a doctype with upper-case name and an empty document
DoctypeOnlyInput ==
    << "<", "!", "d", "o", "c", "t", "y", "p", "e", " ", "H", "t", "M", "L",
      ">", "<", "h", "t", "m", "l", ">", "<", "/", "h", "t", "m", "l", ">" >>

\* text with CR LF and lone CR line ends
NewlineInput ==
    << "a", "\r", "\n", "b", "\r", "c" >>

\* text only
TextInput ==
    << "h", "e", "l", "l", "o" >>

\* an attribute value with an ampersand that starts no character reference
AmpAttributeInput ==
    << "<", "a", " ", "b", "=", "\"", "&", " ", "c", "\"", ">", "d", "e" >>

\* a tag that repeats an attribute name
DuplicateAttributeInput ==
    << "<", "a", " ", "b", "=", "c", " ", "b", "=", "d", ">", "e", "f" >>

\* a paragraph with an attribute
AttributedParagraphInput ==
    << "<", "h", "t", "m", "l", ">", "<", "b", "o", "d", "y", ">", "<", "p",
       " ", "a", "=", "b", ">", "x", "y" >>

\* block elements opened and closed, an end tag without a rule of its own,
\* and a block end tag that matches no open element
BlockInput ==
    << "<", "h", "t", "m", "l", ">", "<", "b", "o", "d", "y", ">", "<", "d",
       "i", "a", "l", "o", "g", ">", "<", "/", "s", "p", "a", "n", ">", "x",
       "<", "d", "i", "v", ">", "<", "/", "d", "i", "v", ">", "<", "/", "d",
       "i", "a", "l", "o", "g", ">", "<", "/", "d", "i", "v", ">", "y" >>

\* misnested formatting elements inside a paragraph
AdoptionInput ==
    << "<", "p", ">", "a", "<", "b", ">", "b", "<", "i", ">", "c", "<", "/",
       "b", ">", "d", "<", "/", "i", ">", "e", "<", "/", "p", ">" >>

\* a tag closed after a space, after an attribute name and after a quoted
\* attribute value
TagSpaceInput == << "<", "a", " ", ">", "x" >>
BareAttributeInput == << "<", "a", " ", "b", ">", "x" >>
QuotedAttributeInput == << "<", "a", " ", "b", "=", "\"", "c", "\"", ">", "x" >>

\* a comment before the head, in the head, after the head and in the body
CommentsInput ==
    << "<", "h", "t", "m", "l", ">", "<", "!", "-", "-", "a", "-", "-", ">",
       "<", "h", "e", "a", "d", ">", "<", "!", "-", "-", "b", "-", "-", ">",
       "<", "/", "h", "e", "a", "d", ">", "<", "!", "-", "-", "c", "-", "-",
       ">", "<", "b", "o", "d", "y", ">", "<", "!", "-", "-", "d", "-", "-",
       ">", "x" >>

\* a block closed while a list and a paragraph are open inside it
NestedBlockInput ==
    << "<", "h", "t", "m", "l", ">", "<", "b", "o", "d", "y", ">", "<", "d",
       "i", "v", ">", "<", "u", "l", ">", "<", "p", ">", "<", "/", "d", "i",
       "v", ">", "x" >>

\* void elements in the head and in the body
VoidInput ==
    << "<", "h", "t", "m", "l", ">", "<", "h", "e", "a", "d", ">", "<", "m",
       "e", "t", "a", ">", "<", "/", "h", "e", "a", "d", ">", "<", "b", "o",
       "d", "y", ">", "a", "<", "b", "r", ">", "<", "i", "n", "p", "u", "t",
       ">", "b", "c" >>

\* a title holding a named character reference
TitleRefInput ==
    << "<", "t", "i", "t", "l", "e", ">", "&", "a", "m", "p", ";", "<", "/",
       "t", "i", "t", "l", "e", ">" >>

Documents ==
    { S1_Input, TitleInput, AttributeInput, UpperInput, CommentInput, CommentLtInput,
      BogusInput, NamedRefInput, HeadlessInput, DoctypeOnlyInput, NewlineInput,
      TextInput, TitleRefInput, AmpAttributeInput,
      DuplicateAttributeInput, AttributedParagraphInput, VoidInput,
      BlockInput, AdoptionInput, TagSpaceInput, BareAttributeInput,
      QuotedAttributeInput, CommentsInput, NestedBlockInput }

Prefixes(doc) == { SubSeq(doc, 1, n) : n \in 0..Len(doc) }

\* every string over Alphabet of at most MaxLen characters
MaxLen == 3
Alphabet == { "<", ">", "/", "a", " ", "&" }
RECURSIVE StringsOfLen(_)
StringsOfLen(n) ==
    IF n = 0 THEN { << >> }
    ELSE { Append(w, c) : w \in StringsOfLen(n - 1), c \in Alphabet }
ShortStrings == UNION { StringsOfLen(n) : n \in 0..MaxLen }

\* every string of CR, LF and a letter of at most MaxNewlineLen characters
MaxNewlineLen == 3
NewlineAlphabet == { "\r", "\n", "a" }
RECURSIVE NewlineStringsOfLen(_)
NewlineStringsOfLen(n) ==
    IF n = 0 THEN { << >> }
    ELSE { Append(w, c) : w \in NewlineStringsOfLen(n - 1), c \in NewlineAlphabet }
NewlineStrings == UNION { NewlineStringsOfLen(n) : n \in 0..MaxNewlineLen }

Inputs ==
    ShortStrings \cup NewlineStrings \cup UNION { Prefixes(doc) : doc \in Documents }

\* a replacement that leaves every CR LF pair as it is
keep_crlf(cs) == cs

\* Parser::normalize_input_stream: CR LF becomes LF, then every CR becomes LF
RECURSIVE ReplaceCRLF(_)
ReplaceCRLF(cs) ==
    IF cs = << >> THEN << >>
    ELSE IF Len(cs) >= 2 /\ cs[1] = "\r" /\ cs[2] = "\n"
    THEN << "\n" >> \o ReplaceCRLF(SubSeq(cs, 3, Len(cs)))
    ELSE << Head(cs) >> \o ReplaceCRLF(Tail(cs))

normalize_input_stream(in) ==
    LET str == ReplaceCRLF(in)
    IN  [ i \in DOMAIN str |-> IF str[i] = "\r" THEN "\n" ELSE str[i] ]

----------------------------------------------------------------------------
(* The state machine *)

\* the emit callback: "tree" forwards every token to TreeBuilder::process_token,
\* "record" only prints the token
Callbacks == { "record", "tree" }

\* what raise(SIGTRAP) does
Dispositions == { "kill", "continue" }

\* the non-looping runs take at most LinearBound(n) steps on n characters; the
\* model lets a run go on for MaxOverrun steps beyond that
LinearBound(n) == 3 * n + 2
MaxOverrun == 2

Init ==
    /\ html \in Inputs
    /\ input = << >>
    /\ callback \in Callbacks
    /\ m_state = "Invalid"
    /\ m_return_state = "Invalid"
    /\ m_current_char_idx = 0
    /\ m_current_token = DOCTYPEToken("", FALSE)
    /\ m_temporary_buffer = << >>
    /\ m_last_emitted_start_token_name = ""
    /\ emitted = << >>
    /\ m_insertion_mode = "Initial"
    /\ m_original_insertion_mode = "Initial"
    /\ m_open_elements = << >>
    /\ m_frameset_ok = "Ok"
    /\ nodes = << NewDocument >>
    /\ m_head = 0
    /\ m_body = 0
    /\ stopped = 0
    /\ result = "idle"
    /\ trapped = FALSE
    /\ tb_set_state = "none"
    /\ tb_passes = << >>
    /\ steps = 0

\* Parser::parse up to the first iteration of the loop of Tokenizer::start
parse ==
    /\ result = "idle"
    /\ input' = normalize_input_stream(html)
    /\ m_state' = "Data"
    /\ result' = "running"
    /\ UNCHANGED << html, callback, m_return_state, m_current_char_idx, m_current_token,
                    m_temporary_buffer, m_last_emitted_start_token_name, emitted,
                    m_insertion_mode, m_original_insertion_mode, m_open_elements,
                    m_frameset_ok, nodes, m_head, m_body, stopped, trapped,
                    tb_set_state, tb_passes, steps >>

\* write the record a handler returned back to the variables; start leaves
\* its loop when the handler returned Abort
Commit(r) ==
    /\ m_state' = r.m_state
    /\ m_return_state' = r.m_return_state
    /\ m_current_char_idx' = r.m_current_char_idx
    /\ m_current_token' = r.m_current_token
    /\ m_temporary_buffer' = r.m_temporary_buffer
    /\ m_last_emitted_start_token_name' = r.m_last_emitted_start_token_name
    /\ emitted' = r.emitted
    /\ m_insertion_mode' = r.m_insertion_mode
    /\ m_original_insertion_mode' = r.m_original_insertion_mode
    /\ m_open_elements' = r.m_open_elements
    /\ m_frameset_ok' = r.m_frameset_ok
    /\ nodes' = r.nodes
    /\ m_head' = r.m_head
    /\ m_body' = r.m_body
    /\ stopped' = r.stopped
    /\ trapped' = r.trapped
    /\ tb_set_state' = r.tb_set_state
    /\ tb_passes' = r.tb_passes
    /\ result' = IF Running(r) /\ r.ret = "Abort" THEN "done" ELSE r.result
    /\ steps' = steps + 1
    /\ UNCHANGED << html, input, callback >>

\* the loop of Tokenizer::start is about to call process_next_token with the
\* tokenizer in `state'
InState(state) ==
    /\ result = "running"
    /\ m_state = state
    /\ steps < LinearBound(Len(input)) + MaxOverrun

\* one iteration of the loop: the handler's record r, its tokens delivered
Step(r) == Commit(DeliverAll(r))

Data ==
    /\ InState("Data")
    /\ \E d \in Dispositions : Step(State_Data(Cur(d)))

TagOpen ==
    /\ InState("TagOpen")
    /\ \E d \in Dispositions : Step(State_TagOpen(Cur(d)))

EndTagOpen ==
    /\ InState("EndTagOpen")
    /\ \E d \in Dispositions : Step(State_EndTagOpen(Cur(d)))

MarkupDeclarationOpen ==
    /\ InState("MarkupDeclarationOpen")
    /\ \E d \in Dispositions : Step(State_MarkupDeclarationOpen(Cur(d)))

DOCTYPE ==
    /\ InState("DOCTYPE")
    /\ \E d \in Dispositions : Step(State_DOCTYPE(Cur(d)))

BeforeDOCTYPEName ==
    /\ InState("BeforeDOCTYPEName")
    /\ \E d \in Dispositions : Step(State_BeforeDOCTYPEName(Cur(d)))

DOCTYPEName ==
    /\ InState("DOCTYPEName")
    /\ \E d \in Dispositions : Step(State_DOCTYPEName(Cur(d)))

CharacterReference ==
    /\ InState("CharacterReference")
    /\ \E d \in Dispositions : Step(State_CharacterReference(Cur(d)))

NamedCharacterReference ==
    /\ InState("NamedCharacterReference")
    /\ \E d \in Dispositions : Step(State_NamedCharacterReference(Cur(d)))

TagName ==
    /\ InState("TagName")
    /\ \E d \in Dispositions : Step(State_TagName(Cur(d)))

SelfClosingStartTag ==
    /\ InState("SelfClosingStartTag")
    /\ \E d \in Dispositions : Step(State_SelfClosingStartTag(Cur(d)))

BeforeAttributeName ==
    /\ InState("BeforeAttributeName")
    /\ \E d \in Dispositions : Step(State_BeforeAttributeName(Cur(d)))

AttributeName ==
    /\ InState("AttributeName")
    /\ \E d \in Dispositions : Step(State_AttributeName(Cur(d)))

BeforeAttributeValue ==
    /\ InState("BeforeAttributeValue")
    /\ \E d \in Dispositions : Step(State_BeforeAttributeValue(Cur(d)))

AttributeValueDoubleQuoted ==
    /\ InState("AttributeValueDoubleQuoted")
    /\ \E d \in Dispositions : Step(State_AttributeValueDoubleQuoted(Cur(d)))

AttributeValueUnquoted ==
    /\ InState("AttributeValueUnquoted")
    /\ \E d \in Dispositions : Step(State_AttributeValueUnquoted(Cur(d)))

AfterAttributeValueQuoted ==
    /\ InState("AfterAttributeValueQuoted")
    /\ \E d \in Dispositions : Step(State_AfterAttributeValueQuoted(Cur(d)))

CommentStart ==
    /\ InState("CommentStart")
    /\ \E d \in Dispositions : Step(State_CommentStart(Cur(d)))

Comment ==
    /\ InState("Comment")
    /\ \E d \in Dispositions : Step(State_Comment(Cur(d)))

CommentEndDash ==
    /\ InState("CommentEndDash")
    /\ \E d \in Dispositions : Step(State_CommentEndDash(Cur(d)))

CommentEnd ==
    /\ InState("CommentEnd")
    /\ \E d \in Dispositions : Step(State_CommentEnd(Cur(d)))

CommentLessThanSign ==
    /\ InState("CommentLessThanSign")
    /\ \E d \in Dispositions : Step(State_CommentLessThanSign(Cur(d)))

RCDATA ==
    /\ InState("RCDATA")
    /\ \E d \in Dispositions : Step(State_RCDATA(Cur(d)))

RCDATALessThanSign ==
    /\ InState("RCDATALessThanSign")
    /\ \E d \in Dispositions : Step(State_RCDATALessThanSign(Cur(d)))

RCDATAEndTagOpen ==
    /\ InState("RCDATAEndTagOpen")
    /\ \E d \in Dispositions : Step(State_RCDATAEndTagOpen(Cur(d)))

RCDATAEndTagName ==
    /\ InState("RCDATAEndTagName")
    /\ \E d \in Dispositions : Step(State_RCDATAEndTagName(Cur(d)))

\* any state the switch has no case for
UnhandledState ==
    /\ result = "running"
    /\ m_state \notin HandledStates
    /\ steps < LinearBound(Len(input)) + MaxOverrun
    /\ \E d \in Dispositions : Step(State_default(Cur(d)))

Next ==
    \/ parse
    \/ Data
    \/ TagOpen
    \/ EndTagOpen
    \/ MarkupDeclarationOpen
    \/ DOCTYPE
    \/ BeforeDOCTYPEName
    \/ DOCTYPEName
    \/ CharacterReference
    \/ NamedCharacterReference
    \/ TagName
    \/ SelfClosingStartTag
    \/ BeforeAttributeName
    \/ AttributeName
    \/ BeforeAttributeValue
    \/ AttributeValueDoubleQuoted
    \/ AttributeValueUnquoted
    \/ AfterAttributeValueQuoted
    \/ CommentStart
    \/ Comment
    \/ CommentEndDash
    \/ CommentEnd
    \/ CommentLessThanSign
    \/ RCDATA
    \/ RCDATALessThanSign
    \/ RCDATAEndTagOpen
    \/ RCDATAEndTagName
    \/ UnhandledState

Spec == Init /\ [][Next]_vars

----------------------------------------------------------------------------
(* A program that calls the DOM directly: it creates nodes and calls the   *)
(* public Node::insert_before and Node::append_child on them.  `steps'     *)
(* counts its calls.                                                       *)

MaxDomNodes == 3      \* nodes created next to the Document
MaxDomCalls == 5      \* calls made

\* the node and its ancestors
RECURSIVE InclusiveAncestors(_)
InclusiveAncestors(n) ==
    IF n = 0 THEN {} ELSE { n } \cup InclusiveAncestors(nodes[n].m_parent)

\* a Document, as TreeBuilder's constructor makes one, and nothing parsed
DomInit ==
    /\ html = << >>
    /\ input = << >>
    /\ callback = "none"
    /\ m_state = "Invalid"
    /\ m_return_state = "Invalid"
    /\ m_current_char_idx = 0
    /\ m_current_token = DOCTYPEToken("", FALSE)
    /\ m_temporary_buffer = << >>
    /\ m_last_emitted_start_token_name = ""
    /\ emitted = << >>
    /\ m_insertion_mode = "Initial"
    /\ m_original_insertion_mode = "Initial"
    /\ m_open_elements = << >>
    /\ m_frameset_ok = "Ok"
    /\ nodes = << NewDocument >>
    /\ m_head = 0
    /\ m_body = 0
    /\ stopped = 0
    /\ result = "running"
    /\ trapped = FALSE
    /\ tb_set_state = "none"
    /\ tb_passes = << >>
    /\ steps = 0

DomCanCall == result = "running" /\ callback = "none" /\ steps < MaxDomCalls

\* new Element or new Text
DomCreate ==
    /\ DomCanCall
    /\ Len(nodes) < 1 + MaxDomNodes
    /\ \/ Commit(create_element_internal(Cur("kill"), 0, "Element", "div", html_namespace))
       \/ Commit(Alloc(Cur("kill"), NewText("a")))

\* the calls the program makes: the parent is a Document or an Element, the
\* node is neither the Document nor the parent nor an ancestor of the parent
DomCallable(parent, node) ==
    /\ nodes[parent].m_type \in { "Document", "Element" }
    /\ node # DocumentId
    /\ node \notin InclusiveAncestors(parent)

\* parent->insert_before(node, child), child one of the parent's children
DomInsertBefore ==
    /\ DomCanCall
    /\ \E parent, node \in DOMAIN nodes :
           /\ DomCallable(parent, node)
           /\ \E i \in DOMAIN nodes[parent].m_child_nodes :
                  Commit(insert_before(Cur("kill"), parent, node,
                                       nodes[parent].m_child_nodes[i]))

\* parent->append_child(node)
DomAppendChild ==
    /\ DomCanCall
    /\ \E parent, node \in DOMAIN nodes :
           /\ DomCallable(parent, node)
           /\ Commit(append_child(Cur("kill"), parent, node))

DomNext == DomCreate \/ DomInsertBefore \/ DomAppendChild

DomSpec == DomInit /\ [][DomNext]_vars

----------------------------------------------------------------------------
(* Observations of a run                                                   *)

\* the process has ended: start returned, or a signal or fault ended it
Ended == result \notin { "idle", "running" }

Children(n) == nodes[n].m_child_nodes

IsElementNamed(n, name) ==
    nodes[n].m_type = "Element" /\ nodes[n].local_name = name

HasChildNamed(n, name) ==
    \E i \in DOMAIN Children(n) : IsElementNamed(Children(n)[i], name)

LastEmittedIsEOF ==
    emitted # << >> /\ emitted[Len(emitted)].type = "EOF"

\* no '&', '<' or NUL
IsPlain(in) == \A i \in DOMAIN in : in[i] \notin { "&", "<", NUL }

\* '<', a letter, and no '>' anywhere: the input ends inside its first tag
EndsInsideTag(in) ==
    /\ Len(in) >= 2
    /\ in[1] = "<"
    /\ is_ascii_alpha(in[2])
    /\ \A i \in DOMAIN in : in[i] # ">"

\* the input starts with a DOCTYPE and its last characters are "</html>"
ClosesFinalTag(in) ==
    /\ Len(in) >= 10
    /\ SubSeq(in, 1, 3) \in { << "<", "!", "D" >>, << "<", "!", "d" >> }
    /\ SubSeq(in, Len(in) - 6, Len(in)) = << "<", "/", "h", "t", "m", "l", ">" >>

HtmlPrefixInput == SubSeq(HeadlessInput, 1, 5)

----------------------------------------------------------------------------
(* Claims                                                                  *)

\* C1: Tokenizer::start terminates for every input, after a number of
\* process_next_token steps that is linear in the input length.  Stated for
\* the callback that only prints the token: the loop is never ended by a
\* signal and never takes more than LinearBound(n) steps.
C1_StartTerminatesLinearly ==
    callback = "record" =>
        /\ result # "killed"
        /\ steps <= LinearBound(Len(input))

\* C2: the tokenizer delivers exactly one end-of-file token, it is the last
\* token delivered, and nothing is delivered after it.  Stated for the
\* callback that only prints the token: an end-of-file token is never followed
\* by another token, and once the process has ended the last token delivered
\* is the end-of-file token.
C2_OneEOFLast ==
    callback = "record" =>
        /\ \A i \in DOMAIN emitted : emitted[i].type = "EOF" => i = Len(emitted)
        /\ Ended => LastEmittedIsEOF

\* C3: parsing never aborts: no run reaches a tokenizer state without a
\* handler or an unimplemented branch of the tree builder, that is, no run
\* raises SIGTRAP or faults.
C3_NeverAborts ==
    /\ ~trapped
    /\ result \notin { "killed", "crashed" }

\* C4: after Parser::parse returns, the Document has an html element child
\* that has a head element child and a body element child.  Stated for the
\* runs that return without having raised a signal.
C4_HtmlHeadBody ==
    (callback = "tree" /\ result = "done" /\ ~trapped) =>
        \E i \in DOMAIN Children(DocumentId) :
            /\ IsElementNamed(Children(DocumentId)[i], "html")
            /\ HasChildNamed(Children(DocumentId)[i], "head")
            /\ HasChildNamed(Children(DocumentId)[i], "body")

\* C5: for an input of n characters without '&', '<' or NUL the tokenizer
\* delivers n character tokens, the i-th carrying the i-th character, and then
\* the end-of-file token.
C5_PlainTextTokens ==
    (callback = "record" /\ result = "done" /\ IsPlain(input)) =>
        emitted = [ i \in DOMAIN input |-> CharacterToken(input[i]) ] \o << EOFToken >>

\* the tree the claim C6 describes
S1_Tree ==
    /\ Len(Children(DocumentId)) = 2
    /\ nodes[Children(DocumentId)[1]].m_type = "DocumentType"
    /\ nodes[Children(DocumentId)[1]].m_name = "html"
    /\ nodes[Children(DocumentId)[2]].interface = "HTMLHtmlElement"
    /\ HasChildNamed(Children(DocumentId)[2], "head")
    /\ \E i \in DOMAIN Children(Children(DocumentId)[2]) :
           LET body == Children(Children(DocumentId)[2])[i]
           IN  /\ IsElementNamed(body, "body")
               /\ Len(Children(body)) = 1
               /\ nodes[Children(body)[1]].m_type = "Text"
               /\ nodes[Children(body)[1]].m_data = "hi"

\* C6: parsing <!DOCTYPE html><html><head></head><body>hi</body></html>
\* returns, and yields a Document with exactly two children, a DocumentType
\* named "html" and an HTMLHtmlElement; the html element has a head child and
\* a body child, and body has exactly one child, a Text node with data "hi".
C6_S1Document ==
    (input = S1_Input /\ callback = "tree" /\ Ended) =>
        (result = "done" /\ S1_Tree)

\* the parse of the input of C6 has returned and left a body holding one node
C6_S1Parsed ==
    /\ input = S1_Input
    /\ callback = "tree"
    /\ result = "done"
    /\ m_body # 0
    /\ Len(Children(m_body)) = 1

\* C7: when the input ends inside a tag, the unfinished tag token is never
\* emitted and tokenization ends by emitting the end-of-file token.
C7_MidTagEndsWithEOF ==
    (callback = "record" /\ EndsInsideTag(input) /\ Ended) =>
        /\ \A i \in DOMAIN emitted : ~IsTag(emitted[i])
        /\ LastEmittedIsEOF

\* C8: parsing the input <html completes and the Document contains an
\* HTMLHtmlElement with local name "html" (the model keeps no attributes on
\* elements, as create_element copies none).
C8_HtmlPrefixDocument ==
    (input = HtmlPrefixInput /\ callback = "tree" /\ Ended) =>
        /\ result = "done"
        /\ \E n \in DOMAIN nodes :
               nodes[n].interface = "HTMLHtmlElement" /\ nodes[n].local_name = "html"

\* C9: when the last character of the input is the '>' of the document's
\* final tag, the parse completes, the Document has exactly two children, the
\* second an HTMLHtmlElement with local name "html", and the head pointer is
\* not null.
C9_FinalTagAtEnd ==
    (ClosesFinalTag(input) /\ callback = "tree" /\ Ended) =>
        /\ result = "done"
        /\ Len(Children(DocumentId)) = 2
        /\ nodes[Children(DocumentId)[2]].interface = "HTMLHtmlElement"
        /\ nodes[Children(DocumentId)[2]].local_name = "html"
        /\ m_head # 0

\* C10: for <!-- c --><html></html> the comment token, processed before any
\* html element exists, becomes the Document's first child, a Comment with
\* data " c ", and the html element is the Document's second child.
C10_CommentBeforeHtml ==
    (input = CommentInput /\ callback = "tree" /\ Ended) =>
        /\ result = "done"
        /\ Len(Children(DocumentId)) >= 2
        /\ nodes[Children(DocumentId)[1]].m_type = "Comment"
        /\ nodes[Children(DocumentId)[1]].m_data = " c "
        /\ IsElementNamed(Children(DocumentId)[2], "html")

\* "<!--" and then at least one character of comment text, without '-', '<',
\* '>' or NUL: the input ends inside the comment, whose text is everything
\* after "<!--"
EndsInsideComment(in) ==
    /\ Len(in) >= 5
    /\ SubSeq(in, 1, 4) = << "<", "!", "-", "-" >>
    /\ \A i \in 5..Len(in) : in[i] \notin { "-", "<", ">", NUL }

\* C11: when the input ends inside a comment, the tokenizer emits the comment
\* token holding the text read so far and then the end-of-file token, in that
\* order, and nothing else.
C11_CommentThenEOF ==
    (callback = "record" /\ EndsInsideComment(input) /\ Ended) =>
        emitted = << CommentToken(Join(SubSeq(input, 5, Len(input)))), EOFToken >>

\* C12: when the tree builder has called Tokenizer::set_state while it handled
\* a token of a process_next_token call, the tokenizer is in that state when
\* the call returns, so its next step runs in it: nothing the handler does
\* after the callback overwrites the state.
C12_SetStateSurvives ==
    (result = "running" /\ tb_set_state # "none") => m_state = tb_set_state

\* the tree builder has switched the tokenizer to RCDATA for a title element
\* and the tokenizer goes on in RCDATA
C12_SwitchedToRCDATA ==
    /\ callback = "tree"
    /\ result = "running"
    /\ tb_set_state = "RCDATA"
    /\ m_state = "RCDATA"
    /\ emitted # << >>
    /\ emitted[Len(emitted)].type = "StartTag"
    /\ emitted[Len(emitted)].name = "title"

\* C13: no step of the tokenizer moves the cursor back.  A handler consumes at
\* most one character before it reconsumes, so the cursor of a step that
\* reconsumes stays where it was when the consume advanced it, and moves back
\* onto the character handled before exactly when the consume was at the end
\* of the input.
C13_CursorNeverMovesBack == [][m_current_char_idx' >= m_current_char_idx]_vars

\* the character tokens for the characters cs, in order
CharacterTokens(cs) == [ i \in 1..Len(cs) |-> CharacterToken(cs[i]) ]

\* the characters of the input after its last '/' at or before position idx:
\* in the RCDATA end tag name state, the name read so far, as written
NameBefore(in, idx) ==
    LET slash == CHOOSE j \in 1..idx :
                     /\ in[j] = "/"
                     /\ \A k \in (j + 1)..idx : in[k] # "/"
    IN  SubSeq(in, slash + 1, idx)

\* the tokenizer is in the RCDATA end tag name state and the next character
\* is whitespace, '/' or '>'
AtEndOfRCDATAEndTagName ==
    /\ result = "running"
    /\ m_state = "RCDATAEndTagName"
    /\ m_current_char_idx < Len(input)
    /\ \/ IsTokWhitespace(input[m_current_char_idx + 1])
       \/ input[m_current_char_idx + 1] \in { "/", ">" }

\* C14: in the RCDATA end tag name state, at whitespace, '/' or '>' after
\* "</name": if name is the name of the last start tag emitted, the end tag
\* goes on (before attribute name, self-closing start tag) or is emitted
\* (for '>', with the tokenizer back in the data state) and no character token
\* is emitted; otherwise '<', '/' and the characters of name as written are
\* emitted as character tokens, in this order, and the RCDATA state is handed
\* the same character again.
C14_RCDATAEndTagName ==
    [][ (AtEndOfRCDATAEndTagName /\ result' = "running") =>
          LET c == input[m_current_char_idx + 1]
              name == NameBefore(input, m_current_char_idx)
          IN  IF Join(LowerAll(name)) = m_last_emitted_start_token_name
              THEN /\ m_current_char_idx' = m_current_char_idx + 1
                   /\ m_state' = IF c = ">" THEN "Data"
                                 ELSE IF c = "/" THEN "SelfClosingStartTag"
                                 ELSE "BeforeAttributeName"
                   /\ emitted' = IF c = ">"
                                 THEN Append(emitted, EndTagToken(Join(LowerAll(name))))
                                 ELSE emitted
              ELSE /\ m_current_char_idx' = m_current_char_idx
                   /\ m_state' = "RCDATA"
                   /\ emitted' = emitted \o CharacterTokens(<< "<", "/" >> \o name)
      ]_vars

\* "</b " inside a title element: the name is not the one of the start tag,
\* and '<', '/', 'b' have been emitted as characters
C14_OtherNameEmittedAsText ==
    /\ result = "running"
    /\ m_state = "RCDATA"
    /\ m_last_emitted_start_token_name = "title"
    /\ Len(emitted) >= 3
    /\ SubSeq(emitted, Len(emitted) - 2, Len(emitted)) = CharacterTokens(<< "<", "/", "b" >>)
    /\ m_current_char_idx < Len(input)
    /\ input[m_current_char_idx + 1] = " "

\* C15: parsing <title>&amp;</title> completes with a title element whose only
\* child is a Text node with data "&".
C15_TitleAmp ==
    (input = TitleRefInput /\ callback = "tree" /\ Ended) =>
        /\ result = "done"
        /\ \E n \in DOMAIN nodes :
               /\ IsElementNamed(n, "title")
               /\ Len(Children(n)) = 1
               /\ nodes[Children(n)[1]].m_type = "Text"
               /\ nodes[Children(n)[1]].m_data = "&"

\* the return states in which a character reference is part of an attribute
\* value
AttributeValueStates ==
    { "AttributeValueDoubleQuoted", "AttributeValueSingleQuoted",
      "AttributeValueUnquoted" }

\* the tokenizer is in the character reference state and the next character
\* of the input is neither alphanumeric nor '#': the '&' consumed is flushed
AtFlush ==
    /\ result = "running"
    /\ m_state = "CharacterReference"
    /\ m_current_char_idx < Len(input)
    /\ ~is_ascii_alpha_numeric(input[m_current_char_idx + 1])
    /\ input[m_current_char_idx + 1] # "#"

\* C16: the flush of a lone '&' appends it to the value of the current
\* attribute and emits nothing when the return state is an attribute value
\* state, and emits it as a character token, leaving the current token alone,
\* when it is not.
C16_FlushGoesToAttribute ==
    [][ (AtFlush /\ result' = "running") =>
          IF m_return_state \in AttributeValueStates
          THEN /\ emitted' = emitted
               /\ m_current_token'.attributes # << >>
               /\ m_current_token'.attributes =
                      [ m_current_token.attributes EXCEPT
                          ![Len(m_current_token.attributes)].value = @ \o "&" ]
          ELSE /\ emitted' = emitted \o << CharacterToken("&") >>
               /\ m_current_token' = m_current_token
      ]_vars

\* C17: the attribute names of every emitted start tag or end tag token are
\* pairwise distinct.
C17_AttributeNamesDistinct ==
    \A i \in DOMAIN emitted :
        IsTag(emitted[i]) =>
            \A j, k \in DOMAIN emitted[i].attributes :
                emitted[i].attributes[j].name = emitted[i].attributes[k].name => j = k

\* the characters cs with every ASCII upper-case letter replaced by its
\* lower-case form
LowerCased(cs) ==
    [ i \in 1..Len(cs) |->
        IF \E k \in 1..26 : UpperSeq[k] = cs[i]
        THEN LowerSeq[CHOOSE k \in 1..26 : UpperSeq[k] = cs[i]]
        ELSE cs[i] ]

\* the stretches of the input, lower-cased: the names without an ASCII
\* upper-case letter a tokenizer can have read from it
LowerCasedNames(in) ==
    { Join(LowerCased(SubSeq(in, a, b))) : a \in 1..(Len(in) + 1), b \in 0..Len(in) }

\* C18: in every step, the name of every tag token and DOCTYPE token the step
\* emits, and the name of every attribute of a tag token it emits, is a stretch
\* of the input with its ASCII upper-case letters in lower-case form; it holds
\* no upper-case letter.
C18_NamesLowerCase ==
    [][ \A i \in (Len(emitted) + 1)..Len(emitted') :
          /\ emitted'[i].type \in { "StartTag", "EndTag", "DOCTYPE" } =>
                 emitted'[i].name \in LowerCasedNames(input)
          /\ \A j \in DOMAIN emitted'[i].attributes :
                 emitted'[i].attributes[j].name \in LowerCasedNames(input)
      ]_vars

\* <BR Id=X/> has been emitted as the start tag br with the attribute id
C18_UpperCaseTagEmitted ==
    /\ Len(input) >= 10
    /\ SubSeq(input, 1, 10) = SubSeq(UpperInput, 1, 10)
    /\ emitted # << >>
    /\ emitted[1].type = "StartTag"
    /\ emitted[1].name = "br"
    /\ emitted[1].attributes # << >>
    /\ emitted[1].attributes[1].name = "id"

\* the characters of h from position i on, without every LF that follows a CR
\* and with every CR as LF
RECURSIVE NormalizedFrom(_, _)
NormalizedFrom(h, i) ==
    IF i > Len(h) THEN << >>
    ELSE IF h[i] = "\n" /\ i > 1 /\ h[i - 1] = "\r" THEN NormalizedFrom(h, i + 1)
    ELSE << IF h[i] = "\r" THEN "\n" ELSE h[i] >> \o NormalizedFrom(h, i + 1)

\* C19: the input stream the tokenizer gets is the text given to the parser
\* with every CR LF pair as one LF and every other CR as LF, every other
\* character unchanged and in order; it holds no CR, and a CR or CR LF at the
\* very end of the text has become exactly one LF.
C19_NewlinesNormalized ==
    result # "idle" =>
        /\ input = NormalizedFrom(html, 1)
        /\ \A i \in DOMAIN input : input[i] # "\r"
        /\ (Len(html) >= 1 /\ html[Len(html)] = "\r") =>
               input = NormalizedFrom(SubSeq(html, 1, Len(html) - 1), 1) \o << "\n" >>
        /\ (Len(html) >= 2 /\ html[Len(html) - 1] = "\r" /\ html[Len(html)] = "\n") =>
               input = NormalizedFrom(SubSeq(html, 1, Len(html) - 2), 1) \o << "\n" >>

\* a text with a CR LF pair and a lone CR has been normalised
C19_NewlineInputNormalized ==
    /\ html = NewlineInput
    /\ result # "idle"
    /\ input = << "a", "\n", "b", "\n", "c" >>

\* C20: every HTMLHtmlElement on the heap has the HTML namespace and the local
\* name "html".
C20_HtmlElementNamed ==
    \A n \in DOMAIN nodes :
        nodes[n].interface = "HTMLHtmlElement" =>
            /\ nodes[n].namespace_uri = html_namespace
            /\ nodes[n].local_name = "html"

\* C21: after any calls of insert_before and append_child, every node in the
\* child list of a node P has P as its parent.
C21_ChildrenKnowParent ==
    \A p \in DOMAIN nodes :
        \A i \in DOMAIN Children(p) : nodes[Children(p)[i]].m_parent = p

\* C22: within every child list the sibling links form a doubly-linked list
\* in the order of the list: the previous sibling of the first child and the
\* next sibling of the last child are null, every other link is the adjacent
\* child.
C22_SiblingLinks ==
    \A p \in DOMAIN nodes :
        \A i \in DOMAIN Children(p) :
            /\ nodes[Children(p)[i]].m_previous_sibling =
                   IF i = 1 THEN 0 ELSE Children(p)[i - 1]
            /\ nodes[Children(p)[i]].m_next_sibling =
                   IF i = Len(Children(p)) THEN 0 ELSE Children(p)[i + 1]

\* C23: in the tree a completed parse has built, the node document of the
\* Document is the Document itself, and the node document of every node with
\* a parent is the node document of that parent.
C23_OwnerDocument ==
    (callback = "tree" /\ result = "done") =>
        /\ nodes[DocumentId].m_document = DocumentId
        /\ \A n \in DOMAIN nodes :
               nodes[n].m_parent # 0 =>
                   nodes[n].m_document = nodes[nodes[n].m_parent].m_document

\* C25: after any calls of insert_before and append_child, no node occurs
\* twice in a child list or in two child lists: a node that had a parent has
\* left that parent's child list.
C25_NoNodeTwice ==
    \A p, q \in DOMAIN nodes :
        \A i \in DOMAIN Children(p) :
            \A j \in DOMAIN Children(q) :
                Children(p)[i] = Children(q)[j] => (p = q /\ i = j)

\* C24: no child of the Document is a Text node.
C24_NoTextInDocument ==
    \A i \in DOMAIN Children(DocumentId) :
        nodes[Children(DocumentId)[i]].m_type # "Text"

\* a parse has completed in which character tokens reached the tree builder:
\* the Document has children and the tree holds a Text node, below an element
C24_TextBelowElement ==
    /\ callback = "tree"
    /\ result = "done"
    /\ \E i \in DOMAIN emitted : emitted[i].type = "Character"
    /\ Children(DocumentId) # << >>
    /\ \E n \in DOMAIN nodes :
           /\ nodes[n].m_type = "Text"
           /\ nodes[n].m_parent # 0
           /\ nodes[nodes[n].m_parent].m_type = "Element"

\* C26: a step in which stop_parsing has run leaves the stack of open elements
\* empty.
C26_StopEmptiesStack ==
    [][ stopped' > stopped => m_open_elements' = << >> ]_vars

\* stop_parsing has run on a stack that held the html and the body element
C26_StoppedWithBody ==
    /\ callback = "tree"
    /\ stopped = 1
    /\ m_open_elements = << >>
    /\ m_body # 0
    /\ \E n \in DOMAIN nodes : IsElementNamed(n, "html")

\* a step in which the tree builder, in the Text or the InBody insertion mode,
\* has been handed exactly one token, the character token for c
InsertsCharacter(c) ==
    /\ callback = "tree"
    /\ result = "running"
    /\ result' = "running"
    /\ m_insertion_mode \in { "Text", "InBody" }
    /\ m_insertion_mode' = m_insertion_mode
    /\ m_open_elements # << >>
    /\ m_open_elements' = m_open_elements
    /\ emitted' = Append(emitted, CharacterToken(c))

\* C27: inserting a character appends it to the data of the last child of the
\* current node when that child is a Text node, and no node is created;
\* otherwise one Text node holding the character is created and becomes the
\* last child of the current node.  Nothing else in the tree changes.
C27_InsertCharacter ==
    [][ \A c \in (Alphabet \cup Range(LowerSeq)) \ { NUL } :
          InsertsCharacter(c) =>
            LET cur  == m_open_elements[Len(m_open_elements)]
                last == IF Children(cur) = << >> THEN 0
                        ELSE Children(cur)[Len(Children(cur))]
                new  == Len(nodes) + 1
            IN  IF last # 0 /\ nodes[last].m_type = "Text"
                THEN nodes' = [ nodes EXCEPT ![last].m_data = @ \o c ]
                ELSE /\ Len(nodes') = new
                     /\ nodes'[new].m_type = "Text"
                     /\ nodes'[new].m_data = c
                     /\ nodes'[new].m_parent = cur
                     /\ nodes'[new].m_child_nodes = << >>
                     /\ nodes'[cur] =
                            [ nodes[cur] EXCEPT !.m_child_nodes = Append(@, new) ]
                     /\ \A n \in DOMAIN nodes \ { cur } : nodes'[n] = nodes[n]
      ]_vars

\* a Text node that holds two characters: the second was appended to the node
\* made for the first
C27_TwoCharactersOneText ==
    /\ callback = "tree"
    /\ result = "running"
    /\ m_insertion_mode = "InBody"
    /\ m_open_elements # << >>
    /\ LET cur == m_open_elements[Len(m_open_elements)]
       IN  /\ Len(Children(cur)) = 1
           /\ nodes[Children(cur)[1]].m_type = "Text"
           /\ nodes[Children(cur)[1]].m_data = "hi"

\* the stack of open elements without its top
StackBelowTop == SubSeq(m_open_elements, 1, Len(m_open_elements) - 1)

\* generic RCDATA or RAWTEXT parsing started in the state the tree builder is
\* in saves the insertion mode as the original one, switches to Text and
\* pushes the one element it creates
GenericParsingSavesMode ==
    \A raw \in BOOLEAN :
        LET r == parse_generic_rcdata_element(Cur("kill"), StartTagToken("title"), raw)
        IN  Running(r) =>
                /\ r.m_original_insertion_mode = m_insertion_mode
                /\ r.m_insertion_mode = "Text"
                /\ r.m_open_elements = Append(m_open_elements, Len(nodes) + 1)
                /\ Len(r.nodes) = Len(nodes) + 1

\* an end-of-file token in the Text mode pops the element and goes back to the
\* original insertion mode, in which the token is processed again
TextLeftByEOF ==
    LET r == Mode_Text(Cur("kill"), EOFToken)
    IN  /\ r.m_insertion_mode = m_original_insertion_mode
        /\ r.m_open_elements = StackBelowTop
        /\ r.reprocess

\* C28: generic RCDATA/RAWTEXT parsing started in insertion mode M makes M the
\* original insertion mode, switches to Text and pushes its element; as long
\* as the builder stays in Text the original insertion mode and the stack are
\* unchanged; and when Text is left, by an end tag or by end-of-file, the
\* insertion mode is the original one and the pushed element is off the
\* stack.  Together: the mode is M again and the stack is what it was.
C28_TextRestoresMode ==
    [][ (callback = "tree" /\ result = "running" /\ m_open_elements # << >>) =>
          /\ m_insertion_mode # "Text" => GenericParsingSavesMode
          /\ (m_insertion_mode = "InHead" /\ m_insertion_mode' = "Text"
                  /\ result' = "running") =>
                 /\ m_original_insertion_mode' = "InHead"
                 /\ m_open_elements' = Append(m_open_elements, Len(nodes'))
                 /\ Len(nodes') = Len(nodes) + 1
          /\ (m_insertion_mode = "Text" /\ result' = "running") =>
                 /\ TextLeftByEOF
                 /\ IF m_insertion_mode' = "Text"
                    THEN /\ m_open_elements' = m_open_elements
                         /\ m_original_insertion_mode' = m_original_insertion_mode
                    ELSE emitted'[Len(emitted')].type = "EndTag" =>
                             /\ m_insertion_mode' = m_original_insertion_mode
                             /\ m_open_elements' = StackBelowTop
      ]_vars

\* a title element has been parsed and closed: the builder is back in InHead
\* with html and head on the stack
C28_BackInHead ==
    /\ callback = "tree"
    /\ result = "running"
    /\ m_insertion_mode = "InHead"
    /\ m_original_insertion_mode = "InHead"
    /\ emitted # << >>
    /\ emitted[Len(emitted)] = EndTagToken("title")
    /\ Len(m_open_elements) = 2
    /\ IsElementNamed(m_open_elements[2], "head")
    /\ HasChildNamed(m_open_elements[2], "title")

\* a step in which the tree builder has been handed one start tag token and
\* has created one node and pushed it on the stack of open elements
InsertsElementForStartTag ==
    /\ callback = "tree"
    /\ result = "running"
    /\ result' = "running"
    /\ m_open_elements # << >>
    /\ Len(emitted') = Len(emitted) + 1
    /\ emitted'[Len(emitted')].type = "StartTag"
    /\ Len(nodes') = Len(nodes) + 1
    /\ m_open_elements' = Append(m_open_elements, Len(nodes'))

\* C29: the element inserted for a start tag token T is in the HTML namespace,
\* has T's name as local name and T's attributes as attributes, is the last
\* child of the node that was the current node, and is the current node
\* afterwards.
C29_InsertHtmlElement ==
    [][ InsertsElementForStartTag =>
          LET T   == emitted'[Len(emitted')]
              cur == m_open_elements[Len(m_open_elements)]
              new == Len(nodes')
          IN  /\ nodes'[new].m_type = "Element"
              /\ nodes'[new].namespace_uri = html_namespace
              /\ nodes'[new].local_name = T.name
              /\ nodes'[new].m_parent = cur
              /\ nodes'[cur].m_child_nodes = Append(nodes[cur].m_child_nodes, new)
              /\ element_attributes(nodes'[new]) = T.attributes
      ]_vars

\* the start tags handled as void elements in the InBody insertion mode
VoidInBody == { "area", "br", "embed", "img", "keygen", "wbr", "input" }

\* a step in which the tree builder has been handed one token, the start tag
\* of a void element: meta in InHead, or one of VoidInBody in InBody
HandlesVoidStartTag ==
    /\ callback = "tree"
    /\ result = "running"
    /\ result' = "running"
    /\ m_open_elements # << >>
    /\ Len(emitted') = Len(emitted) + 1
    /\ emitted'[Len(emitted')].type = "StartTag"
    /\ \/ m_insertion_mode = "InHead" /\ emitted'[Len(emitted')].name = "meta"
       \/ m_insertion_mode = "InBody" /\ emitted'[Len(emitted')].name \in VoidInBody

\* C30: the start tag of a void element adds exactly one element, named after
\* the tag, as last child of the current node, changes no other node, and
\* leaves the stack of open elements and the insertion mode as they were.
C30_VoidStartTag ==
    [][ HandlesVoidStartTag =>
          LET cur == m_open_elements[Len(m_open_elements)]
              new == Len(nodes) + 1
          IN  /\ m_open_elements' = m_open_elements
              /\ m_insertion_mode' = m_insertion_mode
              /\ Len(nodes') = new
              /\ nodes'[new].m_type = "Element"
              /\ nodes'[new].local_name = emitted'[Len(emitted')].name
              /\ nodes'[new].m_parent = cur
              /\ nodes'[cur] = [ nodes[cur] EXCEPT !.m_child_nodes = Append(@, new) ]
              /\ \A n \in DOMAIN nodes \ { cur } : nodes'[n] = nodes[n]
      ]_vars

\* <input> has been handled in the body: the input element is the last child
\* of body, after the br element, and body is still the current node
C30_InputInBody ==
    /\ callback = "tree"
    /\ result = "running"
    /\ m_insertion_mode = "InBody"
    /\ Len(m_open_elements) = 2
    /\ m_open_elements[2] = m_body
    /\ emitted # << >>
    /\ emitted[Len(emitted)] = StartTagToken("input")
    /\ Len(Children(m_body)) = 3
    /\ IsElementNamed(Children(m_body)[2], "br")
    /\ IsElementNamed(Children(m_body)[3], "input")

\* C31: whenever Document::m_head is set it refers to an element whose local
\* name is "head", and once it is set no later step changes it.
C31_HeadPointer ==
    [][ /\ m_head' # 0 => /\ nodes'[m_head'].m_type = "Element"
                          /\ nodes'[m_head'].local_name = "head"
        /\ m_head # 0 => m_head' = m_head
      ]_vars

\* the elements of the special category
SpecialCategory ==
    { "address", "applet", "area", "article", "aside", "base", "basefont", "bgsound",
      "blockquote", "body", "br", "button", "caption", "center", "col", "colgroup",
      "dd", "details", "dir", "div", "dl", "dt", "embed", "fieldset", "figcaption",
      "figure", "footer", "form", "frame", "frameset", "h1", "h2", "h3", "h4", "h5",
      "h6", "head", "header", "hgroup", "hr", "html", "iframe", "img", "input",
      "keygen", "li", "link", "listing", "main", "marquee", "menu", "meta", "nav",
      "noembed", "noframes", "noscript", "object", "ol", "p", "param", "plaintext",
      "pre", "script", "search", "section", "select", "source", "style", "summary",
      "table", "tbody", "td", "template", "textarea", "tfoot", "th", "thead", "title",
      "tr", "track", "ul", "wbr", "xmp" }

\* the end tags for which the InBody insertion mode has a rule of their own
InBodyEndTagsWithRule == { "body" } \cup BlockEndTags \cup InBodyTodoEndTags

\* the stack the "any other end tag" steps leave, walking stack from entry i
\* downward: cut below the first entry named name, untouched if an entry of
\* the special category comes first
RECURSIVE AfterAnyOtherEndTag(_, _, _)
AfterAnyOtherEndTag(stack, i, name) ==
    IF i = 0 THEN stack
    ELSE IF nodes[stack[i]].local_name = name THEN SubSeq(stack, 1, i - 1)
    ELSE IF nodes[stack[i]].local_name \in SpecialCategory THEN stack
    ELSE AfterAnyOtherEndTag(stack, i - 1, name)

\* a step in which the tree builder, in InBody, has been handed one end tag
\* that has no rule of its own
HandlesAnyOtherEndTag ==
    /\ callback = "tree"
    /\ result = "running"
    /\ result' = "running"
    /\ m_insertion_mode = "InBody"
    /\ m_open_elements # << >>
    /\ Len(emitted') = Len(emitted) + 1
    /\ emitted'[Len(emitted')].type = "EndTag"
    /\ emitted'[Len(emitted')].name \notin InBodyEndTagsWithRule

IsTextWith(n, data) == nodes[n].m_type = "Text" /\ nodes[n].m_data = data

\* node n is an element with the given name whose only child is a Text node
\* with the given data
IsElementWithText(n, name, data) ==
    /\ IsElementNamed(n, name)
    /\ Len(Children(n)) = 1
    /\ IsTextWith(Children(n)[1], data)

\* C33: parsing <p>a<b>b<i>c</b>d</i>e</p> completes with, inside body, a p
\* element whose children are Text "a", a b element holding Text "b" and an i
\* element holding Text "c", a second i element holding Text "d", and Text "e".
C33_AdoptionAgency ==
    (html = AdoptionInput /\ callback = "tree" /\ Ended) =>
        /\ result = "done"
        /\ m_body # 0
        /\ \E p \in DOMAIN nodes :
               /\ IsElementNamed(p, "p")
               /\ nodes[p].m_parent = m_body
               /\ Len(Children(p)) = 4
               /\ IsTextWith(Children(p)[1], "a")
               /\ IsElementNamed(Children(p)[2], "b")
               /\ Len(Children(Children(p)[2])) = 2
               /\ IsTextWith(Children(Children(p)[2])[1], "b")
               /\ IsElementWithText(Children(Children(p)[2])[2], "i", "c")
               /\ IsElementWithText(Children(p)[3], "i", "d")
               /\ IsTextWith(Children(p)[4], "e")

\* the tokens emitted so far are one start tag named "a" followed by the
\* character token x, and then at most the end-of-file token
StartTagAThenX ==
    /\ Len(emitted) \in { 2, 3 }
    /\ emitted[1].type = "StartTag"
    /\ emitted[1].name = "a"
    /\ emitted[2] = CharacterToken("x")
    /\ Len(emitted) = 3 => emitted[3] = EOFToken

\* C34: a ">" in a tag-internal state emits the current tag token once and
\* returns to Data: tokenizing <a >x, <a b>x and <a b="c">x to the end emits
\* one start tag named "a" and then the character token x.
C34_TagClosedByGreaterThan ==
    ( /\ html \in { TagSpaceInput, BareAttributeInput, QuotedAttributeInput }
      /\ callback = "record"
      /\ Ended ) => StartTagAThenX

\* the insertion modes the statement about comments names
CommentModes == { "BeforeHead", "InHead", "AfterHead", "InBody" }

\* a step in which the tree builder has been handed one comment token and
\* processes it by the rules of one of CommentModes
HandlesComment ==
    /\ callback = "tree"
    /\ result = "running"
    /\ result' = "running"
    /\ m_insertion_mode \in CommentModes
    /\ m_open_elements # << >>
    /\ nodes[m_open_elements[Len(m_open_elements)]].namespace_uri = html_namespace
    /\ Len(emitted') = Len(emitted) + 1
    /\ emitted'[Len(emitted')].type = "Comment"

\* C35: a comment token processed in BeforeHead, InHead, AfterHead or InBody
\* creates exactly one Comment node with the token's data as last child of the
\* current node and changes neither the insertion mode nor the stack.
C35_InsertComment ==
    [][ HandlesComment =>
          LET cur == m_open_elements[Len(m_open_elements)]
              new == Len(nodes) + 1
          IN  /\ Len(nodes') = new
              /\ nodes'[new].m_type = "Comment"
              /\ nodes'[new].m_data = emitted'[Len(emitted')].data
              /\ nodes'[new].m_parent = cur
              /\ nodes'[cur].m_child_nodes = Append(nodes[cur].m_child_nodes, new)
              /\ m_insertion_mode' = m_insertion_mode
              /\ m_open_elements' = m_open_elements
      ]_vars

\* the test of the dispatcher for a token, evaluated on the current state: the
\* token is processed by the rules of the insertion mode
DispatchedByInsertionMode(token) ==
    \/ m_open_elements = << >>
    \/ nodes[m_open_elements[Len(m_open_elements)]].namespace_uri = html_namespace
    \/ token.type = "EOF"

\* C36: every token handed to process_token is processed by the rules of the
\* current insertion mode and never by those for foreign content, every
\* element on the stack of open elements being in the HTML namespace.
C36_NoForeignContent ==
    [][ ( /\ callback = "tree"
          /\ result = "running"
          /\ Len(emitted') > Len(emitted) ) =>
            /\ DispatchedByInsertionMode(emitted'[Len(emitted) + 1])
            /\ \A i \in DOMAIN m_open_elements :
                   nodes[m_open_elements[i]].namespace_uri = html_namespace
      ]_vars

\* a step in which the tree builder, not stopped by a signal so far, has been
\* handed the end-of-file token
HandlesEOF ==
    /\ callback = "tree"
    /\ result = "running"
    /\ ~trapped
    /\ Len(emitted') > Len(emitted)
    /\ emitted'[Len(emitted')] = EOFToken

\* C37: whatever the insertion mode, processing the end-of-file token reaches
\* stop_parsing, and Parser::parse returns with the stack of open elements
\* empty.
C37_EOFStopsParsing ==
    [][ HandlesEOF =>
          /\ stopped' > stopped
          /\ result' = "done"
          /\ m_open_elements' = << >>
      ]_vars

\* the names of the insertion modes
InsertionModes ==
    { "Initial", "BeforeHTML", "BeforeHead", "InHead", "Text", "AfterHead", "InBody",
      "AfterBody" }

\* C38: the reprocess loop of process_token ends for every token: no pass is
\* made twice in the same insertion mode, so a token is processed at most once
\* per insertion mode.
C38_ReprocessBounded ==
    \A k \in DOMAIN tb_passes :
        /\ \A i, j \in DOMAIN tb_passes[k] :
               tb_passes[k][i] = tb_passes[k][j] => i = j
        /\ Len(tb_passes[k]) <= Cardinality(InsertionModes)

\* a start tag has been reprocessed from BeforeHead through InHead to
\* AfterHead, where <body> was inserted, and the run goes on
C38_ReprocessedTwice ==
    /\ callback = "tree"
    /\ result = "running"
    /\ ~trapped
    /\ tb_passes = << << "BeforeHead", "InHead", "AfterHead" >> >>
    /\ m_insertion_mode = "InBody"

\* a step in which the tree builder, in InBody, has been handed one end tag
\* of the block group
HandlesBlockEndTag ==
    /\ callback = "tree"
    /\ result = "running"
    /\ m_insertion_mode = "InBody"
    /\ m_open_elements # << >>
    /\ Len(emitted') = Len(emitted) + 1
    /\ emitted'[Len(emitted')].type = "EndTag"
    /\ emitted'[Len(emitted')].name \in BlockEndTags

\* the positions of the stack of open elements that hold an element with the
\* given name
OpenElementsNamed(name) ==
    { i \in DOMAIN m_open_elements : nodes[m_open_elements[i]].local_name = name }

Max(S) == CHOOSE x \in S : \A y \in S : y <= x

\* C39: in InBody a block end tag whose name is that of an open element pops
\* the stack of open elements up to and including the nearest such element and
\* nothing below it.
C39_BlockEndTagPops ==
    [][ ( /\ HandlesBlockEndTag
          /\ OpenElementsNamed(emitted'[Len(emitted')].name) # { } ) =>
            /\ result' = "running"
            /\ m_open_elements' =
                   SubSeq(m_open_elements, 1,
                          Max(OpenElementsNamed(emitted'[Len(emitted')].name)) - 1)
      ]_vars

\* </div> has closed the div opened inside dialog: the stack is html, body,
\* dialog again and the div element is the second child of dialog
C39_DivClosed ==
    /\ callback = "tree"
    /\ result = "running"
    /\ ~trapped
    /\ m_insertion_mode = "InBody"
    /\ emitted # << >>
    /\ emitted[Len(emitted)] = EndTagToken("div")
    /\ Len(m_open_elements) = 3
    /\ IsElementNamed(m_open_elements[3], "dialog")
    /\ Len(Children(m_open_elements[3])) = 2
    /\ IsElementNamed(Children(m_open_elements[3])[2], "div")

\* C40: in InBody a block end tag for which no element of that name is on the
\* stack of open elements is ignored: the stack is unchanged.
C40_UnmatchedBlockEndTagIgnored ==
    [][ ( /\ HandlesBlockEndTag
          /\ OpenElementsNamed(emitted'[Len(emitted')].name) = { } ) =>
            m_open_elements' = m_open_elements
      ]_vars

=============================================================================
